---- MODULE Spec2Model ----
(***************************************************************************)
(* A model of perfetto's trace_processor BitVector                         *)
(* (src/trace_processor/containers/bit_vector.cc and its set-bit           *)
(* iterator).                                                              *)
(*                                                                         *)
(* A 64-bit word is the set of its set bit positions, a subset of 0..63.   *)
(* words_ and counts_ are sequences, the C++ element i at index i + 1.     *)
(* bit_vector.h is not among the sources at hand: the inline members it    *)
(* holds (BitWord, Block, Address, Builder, IsSet, CountSetBits,           *)
(* AppendTrue, AppendFalse) are modelled from their specification.         *)
(*                                                                         *)
(* The UI's query result (ui/src/common/query_result.ts) is modelled next  *)
(* to it: the batches the engine appends, the promise of waitAllRows()     *)
(* and one row iterator. Deferred and assertTrue (ui/src/base) are not     *)
(* among the sources: a Deferred settles once, a failed assertTrue throws. *)
(***************************************************************************)
EXTENDS Integers, Sequences, FiniteSets, TLC

\* ------------------------------------------------------------ constants

\* BitWord::kBits: the code hard-wires 64 (uint64_t words, "popcount == 64").
kBitsInWord == 64

\* Block::kWords: the number of words of a block.
kWords == 8

\* Block::kBits.
kBitsInBlock == kWords * kBitsInWord

\* ------------------------------------------------------------ BitWord

AllOnes == 0 .. (kBitsInWord - 1)

WordIsSet(w, bit) == bit \in w

WordSet(w, bit) == w \cup {bit}

WordCountSetBits(w) == Cardinality(w)

WordNot(w) == AllOnes \ w

WordOr(w, other) == w \cup other

WordAnd(w, other) == w \cap other

\* BitWord::ClearAfter: keeps the bits at positions <= bit.
WordClearAfter(w, bit) == {b \in w : b <= bit}

\* BitWord::Set(start, end): sets the bits start..end, both included.
WordSetRange(w, start, end) == w \cup (start .. end)

\* The C++ shifts of a uint64_t, for a shift distance below 64.
ShiftLeft(w, k) == {b + k : b \in {x \in w : x + k < kBitsInWord}}

ShiftRight(w, k) == {b - k : b \in {x \in w : x >= k}}

\* ------------------------------------------------------------ Address

IndexToAddress(idx) ==
  [block_idx |-> idx \div kBitsInBlock,
   block_offset |-> [word_idx |-> (idx % kBitsInBlock) \div kBitsInWord,
                     bit_idx |-> idx % kBitsInWord]]

AddressToIndex(addr) ==
  addr.block_idx * kBitsInBlock
    + addr.block_offset.word_idx * kBitsInWord + addr.block_offset.bit_idx

kLastBlockOffset == [word_idx |-> kWords - 1, bit_idx |-> kBitsInWord - 1]

\* BlockCount(size) and WordCount(size): blocks / words needed for size bits.
BlockCount(size) == (size + kBitsInBlock - 1) \div kBitsInBlock

WordCount(size) == (size + kBitsInWord - 1) \div kBitsInWord

WordFloor(size) == size \div kBitsInWord

\* ------------------------------------------------------------ Block

\* TRUE, for every x. A loop below is split in two halves, the second run on
\* the state the first leaves; testing Evaluated(state) first makes TLC
\* compute that state before it descends into the second half.
Evaluated(x) == x = x

\* A sequence of n copies of x.
Fill(n, x) == [i \in 1 .. n |-> x]

\* std::vector::resize: truncates, or appends value-initialised elements.
VecResize(v, n, zero) ==
  [i \in 1 .. n |-> IF i <= Len(v) THEN v[i] ELSE zero]

\* The word of block b (0-based) at word index w (0-based).
BlockWord(words, b, w) == words[b * kWords + w + 1]

RECURSIVE SumWords(_, _, _)
\* The popcount of words[from .. to] (1-based, both included).
SumWords(words, from, to) ==
  IF from > to THEN 0
  ELSE WordCountSetBits(words[from]) + SumWords(words, from + 1, to)

\* Block::CountSetBits of block b.
BlockCountSetBits(words, b) ==
  SumWords(words, b * kWords + 1, (b + 1) * kWords)

\* Block::CountSetBitsUntil(offset): the set bits of block b at intra-block
\* positions <= offset.
BlockCountSetBitsUntil(words, b, off) ==
  SumWords(words, b * kWords + 1, b * kWords + off.word_idx)
    + WordCountSetBits(
        WordClearAfter(BlockWord(words, b, off.word_idx), off.bit_idx))

\* Block::IsSet(offset).
BlockIsSet(words, b, off) ==
  WordIsSet(BlockWord(words, b, off.word_idx), off.bit_idx)

\* Block::ClearAfter(offset): zeroes every bit of block b after offset.
BlockClearAfter(words, b, off) ==
  [i \in 1 .. Len(words) |->
     LET w == i - 1 - b * kWords IN
     IF w < 0 \/ w >= kWords \/ w < off.word_idx THEN words[i]
     ELSE IF w = off.word_idx THEN WordClearAfter(words[i], off.bit_idx)
     ELSE {}]

\* BitVector::Set(start, end): sets every bit from address start to address
\* end, both included.
SetRange(words, start, end) ==
  LET s == AddressToIndex(start)
      e == AddressToIndex(end)
  IN [i \in 1 .. Len(words) |->
        LET lo == (i - 1) * kBitsInWord
            hi == lo + kBitsInWord - 1
        IN IF hi < s \/ lo > e THEN words[i]
           ELSE WordSetRange(words[i],
                             (IF s > lo THEN s - lo ELSE 0),
                             (IF e < hi THEN e - lo ELSE kBitsInWord - 1))]

\* The prefix sums of the per-block popcounts: the loop
\*   counts[i] = counts[i - 1] + Block(i - 1).CountSetBits()
\* run for i = first .. Len(counts) - 1 (0-based) over a counts vector.
RECURSIVE PrefixCounts(_, _, _)
PrefixCounts(words, counts, i) ==
  IF i >= Len(counts) THEN counts
  ELSE PrefixCounts(
         words,
         [counts EXCEPT ![i + 1] = counts[i] + BlockCountSetBits(words, i - 1)],
         i + 1)

\* ------------------------------------------------------------ BitVector

\* BitVector::BitVector(): no bits, no words, no counts.
EmptyBV == [size |-> 0, words |-> <<>>, counts |-> <<>>]

\* BitVector::CountSetBits(end): the set bits at indices below end, read as
\* counts_[block] + the block's set bits up to the address of end - 1.
CountSetBitsEnd(bv, end) ==
  IF end = 0 THEN 0
  ELSE LET addr == IndexToAddress(end - 1)
       IN bv.counts[addr.block_idx + 1]
            + BlockCountSetBitsUntil(bv.words, addr.block_idx,
                                     addr.block_offset)

\* BitVector::CountSetBits().
CountSetBits(bv) == CountSetBitsEnd(bv, bv.size)

\* BitVector::IsSet(idx), for idx < size.
IsSet(bv, idx) ==
  LET addr == IndexToAddress(idx)
  IN BlockIsSet(bv.words, addr.block_idx, addr.block_offset)

\* The counts written by the filler loop of Resize: counts_[i] for
\* i = from .. to (0-based), the first one set_count and each next one a full
\* block more.
ResizeFillCounts(counts, from, to, set_count) ==
  [j \in 1 .. Len(counts) |->
     IF j - 1 >= from /\ j - 1 <= to
       THEN set_count + (j - 1 - from) * kBitsInBlock
       ELSE counts[j]]

\* The shrinking branch of Resize without its ClearAfter: the bits after the
\* new last bit stay in the last block.
ResizeThrowAwayNothing(words, last_addr) == words

\* The shrinking branch of Resize:
\*   BlockFromIndex(last_addr.block_idx).ClearAfter(last_addr.block_offset)
ResizeThrowAway(words, last_addr) ==
  BlockClearAfter(words, last_addr.block_idx, last_addr.block_offset)

\* BitVector::Resize(new_size, filler).
Resize(bv, new_size, filler) ==
  LET old_size == bv.size IN
  IF new_size = old_size THEN bv
  ELSE IF new_size = 0 THEN EmptyBV
  ELSE
    LET last_addr == IndexToAddress(new_size - 1)
        old_blocks_size == Len(bv.counts)
        new_blocks_size == last_addr.block_idx + 1
        words1 == VecResize(bv.words, kWords * new_blocks_size, {})
        counts1 == VecResize(bv.counts, new_blocks_size, 0)
    IN
    IF new_size > old_size THEN
      IF filler THEN
        LET start == IndexToAddress(old_size)
            words2 == SetRange(words1, start, last_addr)
            end_of_block == [block_idx |-> start.block_idx,
                             block_offset |-> kLastBlockOffset]
            count_in_block_after_end ==
              AddressToIndex(end_of_block) - AddressToIndex(start) + 1
            set_count ==
              CountSetBits([size |-> old_size, words |-> words2,
                            counts |-> counts1])
                + count_in_block_after_end
        IN [size |-> new_size,
            words |-> words2,
            counts |-> ResizeFillCounts(counts1, start.block_idx + 1,
                                        last_addr.block_idx, set_count)]
      ELSE
        LET count == CountSetBits([size |-> old_size, words |-> words1,
                                   counts |-> counts1])
        IN [size |-> new_size,
            words |-> words1,
            counts |-> IF new_blocks_size > old_blocks_size
                         THEN [j \in 1 .. new_blocks_size |->
                                 IF j - 1 >= old_blocks_size THEN count
                                 ELSE counts1[j]]
                         ELSE counts1]
    ELSE
      [size |-> new_size,
       words |-> ResizeThrowAway(words1, last_addr),
       counts |-> counts1]

\* BitVector::BitVector(count, value).
BitVectorFill(count, value) == Resize(EmptyBV, count, value)

\* BitVector::AppendFalse(): one more bit, unset; a new block starts with the
\* count of all the bits before it.
AppendFalse(bv) ==
  LET addr == IndexToAddress(bv.size)
      old_blocks_size == Len(bv.counts)
      new_blocks_size == addr.block_idx + 1
  IN IF new_blocks_size > old_blocks_size
       THEN [size |-> bv.size + 1,
             words |-> bv.words \o Fill(kWords, {}),
             counts |-> Append(bv.counts, CountSetBits(bv))]
       ELSE [bv EXCEPT !.size = bv.size + 1]

\* BitVector::AppendTrue(): AppendFalse(), then the new last bit is set.
AppendTrue(bv) ==
  LET r == AppendFalse(bv)
      addr == IndexToAddress(r.size - 1)
      i == addr.block_idx * kWords + addr.block_offset.word_idx + 1
  IN [r EXCEPT !.words[i] = WordSet(r.words[i], addr.block_offset.bit_idx)]

RECURSIVE FromInitializerList(_, _)
\* BitVector::BitVector(std::initializer_list<bool>): one Append per element.
FromInitializerList(init, bv) ==
  IF init = <<>> THEN bv
  ELSE FromInitializerList(Tail(init),
                           IF Head(init) THEN AppendTrue(bv)
                           ELSE AppendFalse(bv))

\* BitVector::Copy().
Copy(bv) == [size |-> bv.size, words |-> bv.words, counts |-> bv.counts]

\* Not() without the ClearAfter of the last block: complementing sets the
\* bits after the last one.
NotKeepsTrailingBits(bv) ==
  IF bv.size = 0 THEN bv
  ELSE
    [size |-> bv.size,
     words |-> [i \in 1 .. Len(bv.words) |-> WordNot(bv.words[i])],
     counts |-> [j \in 1 .. Len(bv.counts) |->
                   IF j - 1 >= 1
                     THEN kBitsInBlock * (j - 1) - bv.counts[j]
                     ELSE bv.counts[j]]]

\* Not() with its two steps in the other order: the last block is cleared
\* after the last bit first, and every word complemented then.
NotClearsFirst(bv) ==
  IF bv.size = 0 THEN bv
  ELSE
    LET last_addr == IndexToAddress(bv.size - 1)
        words1 == BlockClearAfter(bv.words, last_addr.block_idx,
                                  last_addr.block_offset)
    IN [size |-> bv.size,
        words |-> [i \in 1 .. Len(words1) |-> WordNot(words1[i])],
        counts |-> [j \in 1 .. Len(bv.counts) |->
                      IF j - 1 >= 1
                        THEN kBitsInBlock * (j - 1) - bv.counts[j]
                        ELSE bv.counts[j]]]

\* BitVector::Not().
Not(bv) ==
  IF bv.size = 0 THEN bv
  ELSE
    LET words1 == [i \in 1 .. Len(bv.words) |-> WordNot(bv.words[i])]
        last_addr == IndexToAddress(bv.size - 1)
    IN [size |-> bv.size,
        words |-> BlockClearAfter(words1, last_addr.block_idx,
                                  last_addr.block_offset),
        counts |-> [j \in 1 .. Len(bv.counts) |->
                      IF j - 1 >= 1
                        THEN kBitsInBlock * (j - 1) - bv.counts[j]
                        ELSE bv.counts[j]]]

\* Or(sec) without its second loop: counts_ stay as they were.
OrKeepsCounts(bv, sec) ==
  [size |-> bv.size,
   words |-> [i \in 1 .. Len(bv.words) |-> WordOr(bv.words[i], sec.words[i])],
   counts |-> bv.counts]

\* BitVector::Or(sec), for size_ == sec.size().
Or(bv, sec) ==
  LET words1 == [i \in 1 .. Len(bv.words) |->
                   WordOr(bv.words[i], sec.words[i])]
  IN [size |-> bv.size,
      words |-> words1,
      counts |-> PrefixCounts(words1, bv.counts, 1)]

\* And(sec) without its second loop: counts_ stay as Resize left them.
AndKeepsCounts(bv, sec) ==
  LET r == Resize(bv, (IF bv.size < sec.size THEN bv.size ELSE sec.size),
                  FALSE)
  IN [size |-> r.size,
      words |-> [i \in 1 .. Len(r.words) |-> WordAnd(r.words[i], sec.words[i])],
      counts |-> r.counts]

\* BitVector::And(sec).
And(bv, sec) ==
  LET r == Resize(bv, (IF bv.size < sec.size THEN bv.size ELSE sec.size),
                  FALSE)
      words1 == [i \in 1 .. Len(r.words) |->
                   WordAnd(r.words[i], sec.words[i])]
  IN [size |-> r.size,
      words |-> words1,
      counts |-> PrefixCounts(words1, r.counts, 1)]

\* ------------------------------------------------------------ UpdateSetBits

\* mask & (0 - mask): the position of the lowest set bit of a non-zero mask.
LowestSetBit(mask) == CHOOSE b \in mask : \A c \in mask : b <= c

\* One iteration of a loop that leaves out the test of word & bb: the lowest
\* set bit of mask goes to result whatever bit k of word is.
PdepStepDepositsAll(word, st, k) ==
  LET low == LowestSetBit(st.mask)
  IN [mask |-> st.mask \ {low}, result |-> st.result \cup {low}]

\* One iteration of the loop of PdepSlow, the k-th (bb == 2^k): the lowest
\* set bit of mask goes to result if bit k of word is set, and is then
\* cleared in mask. st holds mask and result.
PdepStep(word, st, k) ==
  LET low == LowestSetBit(st.mask)
  IN [mask |-> st.mask \ {low},
      result |-> IF k \in word THEN st.result \cup {low} ELSE st.result]

RECURSIVE PdepLoop(_, _, _, _)
\* for (uint64_t bb = 1; mask; bb += bb): the iterations lo .. hi - 1, in
\* order, for as long as mask is not 0.
PdepLoop(word, st, lo, hi) ==
  IF lo >= hi \/ st.mask = {} THEN st
  ELSE IF hi - lo = 1 THEN PdepStep(word, st, lo)
  ELSE LET mid == (lo + hi) \div 2
       IN PdepLoop(word, PdepLoop(word, st, lo, mid), mid, hi)

\* PdepSlow(word, mask).
PdepSlow(word, mask) ==
  IF word = {} \/ mask = AllOnes THEN word
  ELSE PdepLoop(word, [mask |-> mask, result |-> {}], 0, kBitsInWord).result

\* Pdep(word, mask): PdepSlow, or the x64 PDEP instruction, which deposits
\* bit k of word at the k-th lowest set bit of mask.
Pdep(word, mask) == PdepSlow(word, mask)

\* One iteration of the word loop of UpdateSetBits, on word ptr (0-based) of
\* this. st holds words (of this), update_ptr (update words read so far),
\* update_unused_bits and unused_bits_count.
UpdateSetBitsWord(st, ptr, update, update_ptr_end) ==
  LET current == st.words[ptr + 1] IN
  IF current = {} THEN st
  ELSE
    LET popcount == WordCountSetBits(current) IN
    IF st.unused_bits_count >= popcount THEN
      [words |-> [st.words EXCEPT
                    ![ptr + 1] = Pdep(st.update_unused_bits, current)],
       update_ptr |-> st.update_ptr,
       update_unused_bits |->
         IF popcount = 64 THEN {}
         ELSE ShiftRight(st.update_unused_bits, popcount),
       unused_bits_count |-> st.unused_bits_count - popcount]
    ELSE
      LET at_end == st.update_ptr = update_ptr_end
          next_update == IF at_end THEN {}
                         ELSE update.words[st.update_ptr + 1]
          update_for_current ==
            st.update_unused_bits
              \cup ShiftLeft(next_update, st.unused_bits_count)
          used_next_bits == popcount - st.unused_bits_count
      IN [words |-> [st.words EXCEPT
                       ![ptr + 1] = Pdep(update_for_current, current)],
          update_ptr |-> IF at_end THEN st.update_ptr
                         ELSE st.update_ptr + 1,
          update_unused_bits |->
            IF used_next_bits = 64 THEN {}
            ELSE ShiftRight(next_update, used_next_bits),
          unused_bits_count |-> 64 - used_next_bits]

RECURSIVE UpdateSetBitsLoop(_, _, _, _, _)
\* for (; ptr != ptr_end; ++ptr): the iterations for words lo .. hi - 1 of
\* this, in order.
UpdateSetBitsLoop(st, lo, hi, update, update_ptr_end) ==
  IF lo >= hi \/ ~Evaluated(st) THEN st
  ELSE IF hi - lo = 1
    THEN UpdateSetBitsWord(st, lo, update, update_ptr_end)
  ELSE LET mid == (lo + hi) \div 2
       IN UpdateSetBitsLoop(
            UpdateSetBitsLoop(st, lo, mid, update, update_ptr_end),
            mid, hi, update, update_ptr_end)

\* The state of the word loop of UpdateSetBits after its first k iterations:
\* ptr and update_ptr start at the first words, update_unused_bits and
\* unused_bits_count at 0.
UpdateSetBitsAfter(bv, update, k) ==
  UpdateSetBitsLoop(
    [words |-> bv.words, update_ptr |-> 0, update_unused_bits |-> {},
     unused_bits_count |-> 0],
    0, k, update, WordCount(update.size))

\* The state in which the word loop of UpdateSetBits ends.
UpdateSetBitsEnd(bv, update) ==
  UpdateSetBitsAfter(bv, update, WordCount(bv.size))

\* UpdateSetBits(update) whose reset clears size_ and words_ alone: counts_
\* stay as they were.
UpdateSetBitsKeepsCounts(bv, update) ==
  IF CountSetBits(update) = 0 \/ CountSetBits(bv) = 0
    THEN [size |-> 0, words |-> <<>>, counts |-> bv.counts]
  ELSE
    LET words1 == UpdateSetBitsEnd(bv, update).words
    IN [size |-> bv.size,
        words |-> words1,
        counts |-> PrefixCounts(words1, bv.counts, 1)]

\* BitVector::UpdateSetBits(update): the BitVector it leaves when it runs to
\* its end.
UpdateSetBits(bv, update) ==
  IF CountSetBits(update) = 0 \/ CountSetBits(bv) = 0 THEN EmptyBV
  ELSE
    LET words1 == UpdateSetBitsEnd(bv, update).words
    IN [size |-> bv.size,
        words |-> words1,
        counts |-> PrefixCounts(words1, bv.counts, 1)]

\* Whether every PERFETTO_DCHECK of UpdateSetBits(update) holds.
UpdateSetBitsDchecks(bv, update) ==
  IF CountSetBits(update) = 0 \/ CountSetBits(bv) = 0 THEN TRUE
  ELSE
    LET end == UpdateSetBitsEnd(bv, update)
    IN /\ update.size <= CountSetBits(bv)
       /\ end.update_unused_bits = {}
       /\ end.update_ptr = WordCount(update.size)
       /\ CountSetBits(update) = CountSetBits(UpdateSetBits(bv, update))

\* ------------------------------------------------------------ SetBitsIterator

\* SetBitsIterator::kBatchSize: the capacity of the batch of set bit indices.
kBatchSize == 64

\* A batch_ entry that was never written.
Indeterminate == -1

\* One iteration of the loop of ReadSetBitBatch, for index i. st holds next
\* (the value the loop variable has when its next iteration starts), count
\* (set_bit_count_until_i), batch and full (the loop returned on a full batch).
ReadSetBitBatchStep(bv, set_bit_count, st, i) ==
  LET addr == IndexToAddress(i)
      set_bits_to_end_of_block ==
        IF addr.block_idx = Len(bv.counts) - 1 THEN set_bit_count
        ELSE bv.counts[addr.block_idx + 2]
  IN IF set_bits_to_end_of_block = st.count
       THEN [st EXCEPT !.next =
               AddressToIndex([block_idx |-> addr.block_idx,
                               block_offset |-> kLastBlockOffset]) + 1]
     ELSE IF ~BlockIsSet(bv.words, addr.block_idx, addr.block_offset)
       THEN [st EXCEPT !.next = i + 1]
     ELSE LET batch_idx == st.count % kBatchSize
          IN [next |-> i + 1,
              count |-> st.count + 1,
              batch |-> [st.batch EXCEPT ![batch_idx + 1] = i],
              full |-> batch_idx = kBatchSize - 1]

RECURSIVE ReadSetBitBatchLoop(_, _, _, _, _)
\* The iterations of the loop of ReadSetBitBatch for lo <= i < hi, in order;
\* an index the loop variable jumps over, or one after the return, has none.
ReadSetBitBatchLoop(bv, set_bit_count, st, lo, hi) ==
  IF st.full \/ st.next >= hi \/ lo >= hi THEN st
  ELSE IF hi - lo = 1
    THEN IF st.next = lo
           THEN ReadSetBitBatchStep(bv, set_bit_count, st, lo)
           ELSE st
  ELSE LET mid == (lo + hi) \div 2
       IN ReadSetBitBatchLoop(
            bv, set_bit_count,
            ReadSetBitBatchLoop(bv, set_bit_count, st, lo, mid),
            mid, hi)

\* SetBitsIterator::ReadSetBitBatch(start_idx) on iterator it over bv: the
\* iterator with its new batch_; dcheck tells that the loop ran to the end of
\* the vector having seen another number of set bits than set_bit_count_, ub
\* that the iterator handed out a batch_ entry that was never written.
ReadSetBitBatch(bv, it, start_idx) ==
  LET st == ReadSetBitBatchLoop(
              bv, it.set_bit_count,
              [next |-> start_idx, count |-> it.set_bit_index,
               batch |-> it.batch, full |-> FALSE],
              start_idx, it.size)
  IN [it EXCEPT !.batch = st.batch,
                !.dcheck = it.dcheck
                             \/ (~st.full /\ st.count # it.set_bit_count)]

\* SetBitsIterator::SetBitsIterator(bv).
IterateSetBits(bv) ==
  LET it0 == [size |-> bv.size,
              set_bit_count |-> CountSetBits(bv),
              set_bit_index |-> 0,
              index |-> 0,
              batch |-> Fill(kBatchSize, Indeterminate),
              dcheck |-> FALSE,
              ub |-> FALSE]
  IN IF it0.set_bit_count > 0
       THEN LET it1 == ReadSetBitBatch(bv, it0, 0)
            IN [it1 EXCEPT !.index = it1.batch[1],
                           !.ub = it1.batch[1] = Indeterminate]
       ELSE it0

\* SetBitsIterator::operator bool.
IteratorValid(it) == it.set_bit_index < it.set_bit_count

\* SetBitsIterator::Next().
IteratorNext(bv, it) ==
  LET it1 == [it EXCEPT !.set_bit_index = it.set_bit_index + 1]
  IN IF it1.set_bit_index >= it1.set_bit_count THEN it1
     ELSE LET it2 == IF it1.set_bit_index % kBatchSize = 0
                       THEN ReadSetBitBatch(bv, it1,
                                            it1.batch[kBatchSize] + 1)
                       ELSE it1
              next_index == it2.batch[(it2.set_bit_index % kBatchSize) + 1]
          IN [it2 EXCEPT !.index = next_index,
                         !.ub = it2.ub \/ next_index = Indeterminate]

RECURSIVE GetSetBitIndicesLoop(_, _, _, _)
\* The iterations lo .. hi - 1 of
\*   for (auto it = IterateSetBits(); it; it.Next()) res.push_back(it.index())
\* started with iterator it: the iterator they leave and the indices they
\* push, in order. The loop ends where the iterator is exhausted, and is
\* followed no further once it read an index that was never written.
GetSetBitIndicesLoop(bv, it, lo, hi) ==
  IF lo >= hi \/ ~IteratorValid(it) \/ it.ub THEN [it |-> it, res |-> <<>>]
  ELSE IF hi - lo = 1
    THEN [it |-> IteratorNext(bv, it), res |-> <<it.index>>]
  ELSE LET mid == (lo + hi) \div 2
           first == GetSetBitIndicesLoop(bv, it, lo, mid)
           second == GetSetBitIndicesLoop(bv, first.it, mid, hi)
       IN [it |-> second.it, res |-> first.res \o second.res]

\* The end of the loop of GetSetBitIndices: the iterator and the indices.
GetSetBitIndicesEnd(bv) ==
  LET it == IterateSetBits(bv)
  IN GetSetBitIndicesLoop(bv, it, 0, it.set_bit_count)

\* BitVector::GetSetBitIndices().
GetSetBitIndices(bv) == GetSetBitIndicesEnd(bv).res

\* ------------------------------------------------------------ Builder

\* Builder(size, skip): a Builder for a BitVector of size bits whose write
\* cursor starts at bit skip; the bits below skip stay 0. ub records a write
\* outside words_, dcheck a failed PERFETTO_DCHECK.
Builder(size, skip) ==
  [words |-> Fill(BlockCount(size) * kWords, {}),
   global_bit_offset |-> skip,
   size |-> size,
   dcheck |-> FALSE,
   ub |-> FALSE]

\* Builder::Append(value).
BuilderAppend(b, value) ==
  LET w == b.global_bit_offset \div kBitsInWord
      bit == b.global_bit_offset % kBitsInWord
  IN [words |-> IF w >= Len(b.words) \/ ~value THEN b.words
                ELSE [b.words EXCEPT ![w + 1] = WordSet(b.words[w + 1], bit)],
      global_bit_offset |-> b.global_bit_offset + 1,
      size |-> b.size,
      dcheck |-> b.dcheck \/ ~(b.global_bit_offset < b.size),
      ub |-> b.ub \/ w >= Len(b.words)]

\* Builder::AppendWord(word).
BuilderAppendWord(b, word) ==
  LET w == b.global_bit_offset \div kBitsInWord
  IN [words |-> IF w >= Len(b.words) THEN b.words
                ELSE [b.words EXCEPT ![w + 1] = word],
      global_bit_offset |-> b.global_bit_offset + kBitsInWord,
      size |-> b.size,
      dcheck |-> \/ b.dcheck
                 \/ b.global_bit_offset % kBitsInWord # 0
                 \/ b.global_bit_offset + kBitsInWord > b.size,
      ub |-> b.ub \/ w >= Len(b.words)]

\* Builder::BitsUntilFull().
BitsUntilFull(b) == b.size - b.global_bit_offset

\* Builder::BitsUntilWordBoundaryOrFull().
BitsUntilWordBoundaryOrFull(b) ==
  IF b.global_bit_offset = 0 /\ b.size < kBitsInWord THEN b.size
  ELSE LET word_bit_offset == b.global_bit_offset % kBitsInWord
           to_boundary == (kBitsInWord - word_bit_offset) % kBitsInWord
       IN IF BitsUntilFull(b) < to_boundary THEN BitsUntilFull(b)
          ELSE to_boundary

\* Builder::BitsInCompleteWordsUntilFull().
BitsInCompleteWordsUntilFull(b) ==
  LET next_word == WordCount(b.global_bit_offset)
      end_word == WordFloor(b.size)
      complete_words == IF next_word < end_word THEN end_word - next_word
                        ELSE 0
  IN complete_words * kBitsInWord

\* Builder::Build(): the words with the counts computed in one pass.
Build(b) ==
  IF b.size = 0 THEN EmptyBV
  ELSE [size |-> b.size,
        words |-> b.words,
        counts |-> PrefixCounts(b.words, Fill(BlockCount(b.size), 0), 1)]

\* ------------------------------------------------------------ SelectBits

\* Whether CountSetBits(end) reads counts_ and words_ inside their bounds.
CountSetBitsEndInBounds(bv, end) ==
  end = 0 \/ IndexToAddress(end - 1).block_idx < Len(bv.counts)

\* One iteration of the loop of SelectBits. st holds it (over mask_bv), res
\* (the Builder) and stop (the loop condition was false, or it read an index
\* the iterator never wrote).
SelectBitsStep(bv, mask_bv, st) ==
  IF st.stop \/ ~IteratorValid(st.it) \/ st.it.ub
    THEN [st EXCEPT !.stop = TRUE]
  ELSE IF ~(st.it.index < bv.size) THEN [st EXCEPT !.stop = TRUE]
  ELSE [it |-> IteratorNext(mask_bv, st.it),
        res |-> BuilderAppend(st.res, IsSet(bv, st.it.index)),
        stop |-> FALSE]

RECURSIVE SelectBitsLoop(_, _, _, _, _)
\* The iterations lo .. hi - 1 of the loop of SelectBits.
SelectBitsLoop(bv, mask_bv, st, lo, hi) ==
  IF lo >= hi \/ st.stop THEN st
  ELSE IF hi - lo = 1 THEN SelectBitsStep(bv, mask_bv, st)
  ELSE LET mid == (lo + hi) \div 2
       IN SelectBitsLoop(bv, mask_bv,
                         SelectBitsLoop(bv, mask_bv, st, lo, mid), mid, hi)

\* The end of the loop of SelectBits(mask_bv), for a mask_bv whose counts_
\* CountSetBits(size_) reads in bounds.
SelectBitsEnd(bv, mask_bv) ==
  LET it == IterateSetBits(mask_bv)
  IN SelectBitsLoop(
       bv, mask_bv,
       [it |-> it,
        res |-> Builder(CountSetBitsEnd(mask_bv, bv.size), 0),
        stop |-> FALSE],
       0, it.set_bit_count)

\* BitVector::SelectBits(mask_bv): the BitVector it leaves.
SelectBits(bv, mask_bv) == Build(SelectBitsEnd(bv, mask_bv).res)

\* ------------------------------------------------------------ FromSortedIndexVector

RECURSIVE Pow2(_)
Pow2(k) == IF k = 0 THEN 1 ELSE 2 * Pow2(k - 1)

\* An int64_t i >= 0 is held as [hi, lo] with i = hi * 2^30 + lo and
\* lo < 2^30: the integers of TLC end at 2^31 - 1, the indices do not.
Limb == Pow2(30)

\* The int64_t of a number below 2^31.
Int64(n) == [hi |-> n \div Limb, lo |-> n % Limb]

\* The indices of a list of numbers below 2^31.
Indices(ns) == [k \in 1 .. Len(ns) |-> Int64(ns[k])]

\* i + 1.
Int64Plus1(i) ==
  IF i.lo = Limb - 1 THEN [hi |-> i.hi + 1, lo |-> 0]
  ELSE [hi |-> i.hi, lo |-> i.lo + 1]

\* i / kBitsInWord: 2^30 is a multiple of 64.
Int64DivWord(i) ==
  [hi |-> i.hi \div kBitsInWord,
   lo |-> (i.hi % kBitsInWord) * (Limb \div kBitsInWord)
            + i.lo \div kBitsInWord]

\* static_cast<uint32_t>(i): i modulo 2^32, which is 4 * 2^30.
CastUint32(i) == [hi |-> i.hi % 4, lo |-> i.lo]

\* The number a uint32_t below 2^31 is.
Narrow(u) == u.hi * Limb + u.lo

\* auto word_idx = static_cast<uint32_t>(i / kBitsInWord)
WordIdx(i) == CastUint32(Int64DivWord(i))

\* auto size = static_cast<uint32_t>(indices.back() + 1)
SizeOfIndices(indices) ==
  Narrow(CastUint32(Int64Plus1(indices[Len(indices)])))

RECURSIVE SetIndices(_, _, _)
\* for (const int64_t i : indices) BitWord(&words[i / 64]).Set(i % 64)
SetIndices(words, indices, k) ==
  IF k > Len(indices) THEN words
  ELSE LET word_idx == Narrow(WordIdx(indices[k]))
           in_word_idx == indices[k].lo % kBitsInWord
       IN SetIndices(
            [words EXCEPT ![word_idx + 1] = WordSet(words[word_idx + 1],
                                                    in_word_idx)],
            indices, k + 1)

\* Whether FromSortedIndexVector(indices) writes outside words: a word_idx
\* that is no index of the block_count * kWords words allocated for size.
FromSortedIndexVectorOverflows(indices) ==
  /\ indices # <<>>
  /\ \E k \in 1 .. Len(indices) :
       \/ WordIdx(indices[k]).hi > 0
       \/ WordIdx(indices[k]).lo >= BlockCount(SizeOfIndices(indices)) * kWords

\* BitVector::FromSortedIndexVector(indices), when it writes inside words.
FromSortedIndexVector(indices) ==
  IF indices = <<>> THEN EmptyBV
  ELSE
    LET size == SizeOfIndices(indices)
        block_count == BlockCount(size)
        words == SetIndices(Fill(block_count * kWords, {}), indices, 1)
    IN [size |-> size,
        words |-> words,
        counts |-> PrefixCounts(words, Fill(block_count, 0), 1)]

\* ------------------------------------------------------------ IntersectRange

RECURSIVE AppendBits(_, _, _, _)
\* for (i = 0; i < n; ++i, ++cur_index) builder.Append(IsSet(cur_index))
AppendBits(bv, builder, cur_index, n) ==
  IF n <= 0 \/ ~Evaluated(builder) THEN builder
  ELSE IF n = 1 THEN BuilderAppend(builder, IsSet(bv, cur_index))
  ELSE LET half == n \div 2
       IN AppendBits(bv, AppendBits(bv, builder, cur_index, half),
                     cur_index + half, n - half)

RECURSIVE AppendWords(_, _, _, _)
\* for (; cur_words < total_full_words; ++cur_words)
\*   builder.AppendWord(words_[cur_words])
AppendWords(bv, builder, cur_words, total_full_words) ==
  IF cur_words >= total_full_words \/ ~Evaluated(builder) THEN builder
  ELSE IF total_full_words - cur_words = 1
    THEN BuilderAppendWord(builder, bv.words[cur_words + 1])
  ELSE LET mid == (cur_words + total_full_words) \div 2
       IN AppendWords(bv, AppendWords(bv, builder, cur_words, mid),
                      mid, total_full_words)

\* IntersectRangeBuilder without its last loop: the bits after the last
\* whole word are not appended.
IntersectRangeBuilderNoTail(bv, range_start, range_end) ==
  LET end_idx == IF range_end < bv.size THEN range_end ELSE bv.size
      builder0 == Builder(end_idx, range_start)
      front_bits == BitsUntilWordBoundaryOrFull(builder0)
      builder1 == AppendBits(bv, builder0, range_start, front_bits)
      cur_index1 == range_start + front_bits
      cur_words == cur_index1 \div kBitsInWord
      full_words == BitsInCompleteWordsUntilFull(builder1) \div kBitsInWord
      total_full_words == cur_words + full_words
  IN AppendWords(bv, builder1, cur_words, total_full_words)

\* IntersectRange without its first loop: no bit is appended before the
\* whole words.
IntersectRangeHeadSkipped(bv, range_start, range_end) ==
  Builder((IF range_end < bv.size THEN range_end ELSE bv.size), range_start)

\* uint32_t front_bits = builder.BitsUntilWordBoundaryOrFull(), asked of the
\* new Builder(end_idx, range_start).
IntersectRangeFrontBits(bv, range_start, range_end) ==
  BitsUntilWordBoundaryOrFull(
    Builder((IF range_end < bv.size THEN range_end ELSE bv.size),
            range_start))

\* The Builder of IntersectRange(range_start, range_end) after its first
\* loop, which appends front_bits bits one by one.
IntersectRangeHead(bv, range_start, range_end) ==
  LET end_idx == IF range_end < bv.size THEN range_end ELSE bv.size
  IN AppendBits(bv, Builder(end_idx, range_start), range_start,
                IntersectRangeFrontBits(bv, range_start, range_end))

\* uint32_t full_words = builder.BitsInCompleteWordsUntilFull() / kBits,
\* asked after the first loop.
IntersectRangeFullWords(bv, range_start, range_end) ==
  BitsInCompleteWordsUntilFull(
    IntersectRangeHead(bv, range_start, range_end)) \div kBitsInWord

\* The Builder of IntersectRange(range_start, range_end) after its second
\* loop, which appends full_words words of this with AppendWord.
IntersectRangeBody(bv, range_start, range_end) ==
  LET cur_index ==
        range_start + IntersectRangeFrontBits(bv, range_start, range_end)
      cur_words == cur_index \div kBitsInWord
      total_full_words ==
        cur_words + IntersectRangeFullWords(bv, range_start, range_end)
  IN AppendWords(bv, IntersectRangeHead(bv, range_start, range_end),
                 cur_words, total_full_words)

\* The Builder of IntersectRange(range_start, range_end) when Build() is
\* called, for range_start < min(range_end, size): after the third loop,
\* which appends last_bits bits one by one.
IntersectRangeBuilder(bv, range_start, range_end) ==
  LET builder2 == IntersectRangeBody(bv, range_start, range_end)
      last_bits == BitsUntilFull(builder2)
      cur_index ==
        range_start + IntersectRangeFrontBits(bv, range_start, range_end)
          + IntersectRangeFullWords(bv, range_start, range_end) * kBitsInWord
  IN AppendBits(bv, builder2, cur_index, last_bits)

\* BitVector::IntersectRange(range_start, range_end).
IntersectRange(bv, range_start, range_end) ==
  LET end_idx == IF range_end < bv.size THEN range_end ELSE bv.size
  IN IF range_start >= end_idx THEN EmptyBV
     ELSE Build(IntersectRangeBuilder(bv, range_start, range_end))

\* ------------------------------------------------------------ Serializer

\* Byte j (0..7) of a word in memory, least significant byte first.
WordByte(w, j) ==
  LET bits == {b \in w : b \div 8 = j}
      F[k \in 0 .. 8] ==
        IF k = 8 THEN 0
        ELSE (IF 8 * j + k \in bits THEN Pow2(k) ELSE 0) + F[k + 1]
  IN F[0]

\* Byte j (0..3) of a uint32_t in memory, least significant byte first.
CountByte(c, j) == (c \div Pow2(8 * j)) % 256

\* The bytes of a words_ array: reinterpret_cast<const uint8_t*>(words_.data()).
WordsBytes(words) ==
  [i \in 1 .. 8 * Len(words) |->
     WordByte(words[((i - 1) \div 8) + 1], (i - 1) % 8)]

\* The bytes of a counts_ array.
CountsBytes(counts) ==
  [i \in 1 .. 4 * Len(counts) |->
     CountByte(counts[((i - 1) \div 4) + 1], (i - 1) % 4)]

\* The uint64_t whose memory is bytes[at + 1 .. at + 8].
BytesWord(bytes, at) ==
  {b \in AllOnes : (bytes[at + (b \div 8) + 1] \div Pow2(b % 8)) % 2 = 1}

\* The uint32_t whose memory is bytes[at + 1 .. at + 4].
BytesCount(bytes, at) ==
  bytes[at + 1] + 256 * bytes[at + 2] + 65536 * bytes[at + 3]
    + 16777216 * bytes[at + 4]

\* BitVector::Serialize(msg): size always, counts and words when not empty.
Serialize(bv) ==
  [size |-> bv.size,
   has_counts |-> bv.counts # <<>>,
   counts |-> CountsBytes(bv.counts),
   has_words |-> bv.words # <<>>,
   words |-> WordsBytes(bv.words)]

\* Deserialize(bv_msg) without its two else branches: a message that holds
\* no counts, or no words, leaves those of the target as they were.
DeserializeKeepsAbsent(bv, bv_msg) ==
  [size |-> bv_msg.size,
   counts |-> IF bv_msg.has_counts
                THEN [i \in 1 .. (Len(bv_msg.counts) \div 4) |->
                        BytesCount(bv_msg.counts, 4 * (i - 1))]
                ELSE bv.counts,
   words |-> IF bv_msg.has_words
               THEN [i \in 1 .. (Len(bv_msg.words) \div 8) |->
                       BytesWord(bv_msg.words, 8 * (i - 1))]
               ELSE bv.words]

\* Deserialize(bv_msg) without words_.clear(): a message that holds no words
\* leaves the words of the target as they were.
DeserializeKeepsAbsentWords(bv, bv_msg) ==
  [size |-> bv_msg.size,
   counts |-> IF bv_msg.has_counts
                THEN [i \in 1 .. (Len(bv_msg.counts) \div 4) |->
                        BytesCount(bv_msg.counts, 4 * (i - 1))]
                ELSE <<>>,
   words |-> IF bv_msg.has_words
               THEN [i \in 1 .. (Len(bv_msg.words) \div 8) |->
                       BytesWord(bv_msg.words, 8 * (i - 1))]
               ELSE bv.words]

\* BitVector::Deserialize(bv_msg): the BitVector it leaves. resize() takes
\* the byte length divided by the element size, rounded down; the memcpy
\* fills those elements.
Deserialize(bv, bv_msg) ==
  [size |-> bv_msg.size,
   counts |-> IF bv_msg.has_counts
                THEN [i \in 1 .. (Len(bv_msg.counts) \div 4) |->
                        BytesCount(bv_msg.counts, 4 * (i - 1))]
                ELSE <<>>,
   words |-> IF bv_msg.has_words
               THEN [i \in 1 .. (Len(bv_msg.words) \div 8) |->
                       BytesWord(bv_msg.words, 8 * (i - 1))]
               ELSE <<>>]

\* Whether a memcpy of Deserialize writes past the end of the resized vector:
\* it copies the whole byte length.
DeserializeOverflows(bv_msg) ==
  \/ bv_msg.has_counts /\ Len(bv_msg.counts) % 4 # 0
  \/ bv_msg.has_words /\ Len(bv_msg.words) % 8 # 0

\* ------------------------------------------------------------ the program

\* The number of operations of a run.
MaxSteps == 2

\* The two BitVectors of a run: each is the target of operations, and the
\* operand of the other's.
Vecs == {1, 2}

\* The BitVectors a run starts from, one per constructor call: BitVector(),
\* BitVector(count, value), BitVector(initializer_list) and
\* FromSortedIndexVector.
Constructed ==
  <<EmptyBV,
    BitVectorFill(70, TRUE),
    BitVectorFill(512, TRUE),
    BitVectorFill(1030, TRUE),
    FromInitializerList(<<TRUE, FALSE, TRUE, TRUE, FALSE>>, EmptyBV),
    FromInitializerList(<<FALSE, TRUE, FALSE, TRUE, TRUE, FALSE>>, EmptyBV),
    FromInitializerList(<<FALSE, TRUE, TRUE>>, EmptyBV),
    FromSortedIndexVector(Indices(<<1, 63, 64, 70, 129>>)),
    FromSortedIndexVector(Indices(<<5, 1030>>))>>

\* The arguments of Resize and of IntersectRange.
ResizeSizes == {0, 70, 512, 600, 1030}

Ranges == {<<1, 4>>, <<0, 64>>, <<3, 130>>, <<64, 600>>, <<4, 1>>}

\* No message.
NoMsg ==
  [size |-> 0, has_counts |-> FALSE, counts |-> <<>>, has_words |-> FALSE,
   words |-> <<>>]

\* Messages that no Serialize wrote: byte lengths that are no multiple of the
\* element size, arrays that do not fit the size, arrays without a size.
ForgedMsgs ==
  {[size |-> 3, has_counts |-> TRUE, counts |-> <<0, 0, 0, 0, 7>>,
    has_words |-> TRUE, words |-> CountsBytes(<<5, 0>>) \o Fill(56, 0)],
   [size |-> 3, has_counts |-> TRUE, counts |-> <<0, 0, 0, 0>>,
    has_words |-> TRUE, words |-> Fill(63, 255)],
   [size |-> 100, has_counts |-> FALSE, counts |-> <<>>,
    has_words |-> FALSE, words |-> <<>>],
   [size |-> 600, has_counts |-> TRUE, counts |-> <<0, 0, 0, 0>>,
    has_words |-> TRUE, words |-> Fill(64, 255)],
   [size |-> 0, has_counts |-> TRUE, counts |-> <<0, 0, 0, 0>>,
    has_words |-> FALSE, words |-> <<>>]}

\* ---------------------------------------------------------------------------
\* ui/src/common/query_result.ts: the result of one query, fed by the engine
\* batch by batch and read by the UI through a promise and a row iterator.
\* ---------------------------------------------------------------------------

\* An absent value (undefined) is the empty sequence, a present one a
\* sequence of one element.
undefined == <<>>

Some(x) == <<x>>

CELL_NULL == 1

CELL_VARINT == 2

CELL_FLOAT64 == 3

CELL_STRING == 4

CELL_BLOB == 5

TAG_LEN_DELIM == 2

\* A Deferred is a promise with its resolve and reject: it settles once, and
\* a later resolve or reject leaves it as it is.
defer == [state |-> "pending", value |-> ""]

DeferredResolve(promise, arg) ==
  IF promise.state = "pending"
  THEN [state |-> "resolved", value |-> arg]
  ELSE promise

DeferredReject(promise, error) ==
  IF promise.state = "pending"
  THEN [state |-> "rejected", value |-> error]
  ELSE promise

\* The fields of a trace_processor.QueryResult message as protobuf.Reader
\* hands them to appendResultBatch, in the order of the wire: a column name,
\* an error, the bytes of a CellsBatch, and a field of another number.
ColumnNameField(s) == [tag |-> 1, s |-> s, bytes |-> <<>>]

ErrorField(s) == [tag |-> 2, s |-> s, bytes |-> <<>>]

BatchField(bytes) == [tag |-> 3, s |-> "", bytes |-> bytes]

UnknownField == [tag |-> 9, s |-> "", bytes |-> <<>>]

\* The bytes of a CellsBatch: field 1, the packed cell types, and field 6,
\* is_last_batch; lengths and values below 128 take one byte.
CellsBatch(cells, is_last_batch) ==
  <<1 * 8 + TAG_LEN_DELIM, Len(cells)>> \o cells
    \o <<6 * 8, IF is_last_batch THEN 1 ELSE 0>>

\* The same behind field 7, the padding that aligns the float64 cells.
PaddedCellsBatch(cells, is_last_batch) ==
  <<7 * 8 + TAG_LEN_DELIM, 1, 0>> \o CellsBatch(cells, is_last_batch)

\* new ResultBatch(batchBytes) before its parsing loop; pos counts from 0.
NewResultBatch(batchBytes) ==
  [isLastBatch |-> FALSE, batchBytes |-> batchBytes, cellTypesOff |-> 0,
   cellTypesLen |-> 0, threw |-> FALSE]

\* reader.skipType(tag & 7) at pos, after the tag: a varint of one byte, or a
\* length and that many bytes.
SkipType(batchBytes, pos, wire) ==
  IF wire = TAG_LEN_DELIM THEN pos + 1 + batchBytes[pos + 1] ELSE pos + 1

\* The parsing loop of the ResultBatch constructor from pos to the end.
RECURSIVE ResultBatchParse(_, _)
ResultBatchParse(b, pos) ==
  IF pos >= Len(b.batchBytes) THEN b
  ELSE LET tag == b.batchBytes[pos + 1]
           len == b.batchBytes[pos + 2]
       IN  CASE tag \div 8 = 1 ->
                  IF tag % 8 # TAG_LEN_DELIM THEN [b EXCEPT !.threw = TRUE]
                  ELSE ResultBatchParse(
                         [b EXCEPT !.cellTypesLen = len,
                                   !.cellTypesOff = pos + 2],
                         pos + 2 + len)
             [] tag \div 8 = 6 ->
                  ResultBatchParse([b EXCEPT !.isLastBatch = (len # 0)],
                                   pos + 2)
             [] OTHER ->
                  ResultBatchParse(b, SkipType(b.batchBytes, pos + 1, tag % 8))

ResultBatch(batchBytes) == ResultBatchParse(NewResultBatch(batchBytes), 0)

numCells(batch) == batch.cellTypesLen

\* new QueryResultImpl().
QueryResultImpl ==
  [columnNames |-> <<>>, error |-> undefined, numRows |-> 0,
   isComplete |-> FALSE, batches |-> <<>>, allRowsPromise |-> undefined]

\* A call on res that returned, and one that threw with res as it was then.
Done(res) == [threw |-> FALSE, res |-> res]

Thrown(res) == [threw |-> TRUE, res |-> res]

resolveOrReject(res) ==
  [res EXCEPT !.allRowsPromise =
     IF res.error = undefined
     THEN Some(DeferredResolve(@[1], "this"))
     ELSE Some(DeferredReject(@[1], res.error[1]))]

waitAllRows(res) ==
  IF res.allRowsPromise # undefined THEN Thrown(res)
  ELSE LET waiting == [res EXCEPT !.allRowsPromise = Some(defer)]
       IN  IF res.isComplete THEN Done(resolveOrReject(waiting))
           ELSE Done(waiting)

\* case 3 of appendResultBatch: one batch field.
AppendBatch(res, batchRaw) ==
  LET parsedBatch == ResultBatch(batchRaw)
      pushed == [res EXCEPT !.batches = Append(@, parsedBatch),
                            !.isComplete = parsedBatch.isLastBatch]
      numColumns == Len(res.columnNames)
  IN  IF parsedBatch.threw THEN Thrown(res)
      ELSE IF numColumns # 0
      THEN IF numCells(parsedBatch) % numColumns # 0 THEN Thrown(pushed)
           ELSE Done([pushed EXCEPT !.numRows =
                            @ + numCells(parsedBatch) \div numColumns])
      ELSE IF numCells(parsedBatch) # 0 THEN Thrown(pushed)
           ELSE Done(pushed)

\* The reading loop of appendResultBatch from field k of resBytes.
RECURSIVE AppendFields(_, _, _, _)
AppendFields(res, resBytes, k, columnNamesEmptyAtStartOfBatch) ==
  IF k > Len(resBytes) THEN Done(res)
  ELSE LET f == resBytes[k]
       IN  CASE f.tag = 1 ->
                  IF ~columnNamesEmptyAtStartOfBatch THEN Thrown(res)
                  ELSE AppendFields(
                         [res EXCEPT !.columnNames = Append(@, f.s)],
                         resBytes, k + 1, columnNamesEmptyAtStartOfBatch)
             [] f.tag = 2 ->
                  AppendFields(
                    [res EXCEPT !.error =
                       IF f.s # "" THEN Some(f.s) ELSE undefined],
                    resBytes, k + 1, columnNamesEmptyAtStartOfBatch)
             [] f.tag = 3 ->
                  LET a == AppendBatch(res, f.bytes)
                  IN  IF a.threw THEN a
                      ELSE AppendFields(a.res, resBytes, k + 1,
                                        columnNamesEmptyAtStartOfBatch)
             [] OTHER ->
                  AppendFields(res, resBytes, k + 1,
                               columnNamesEmptyAtStartOfBatch)

appendResultBatch(res, resBytes) ==
  LET a == AppendFields(res, resBytes, 1, Len(res.columnNames) = 0)
  IN  IF a.threw THEN a
      ELSE IF a.res.isComplete /\ a.res.allRowsPromise # undefined
      THEN Done(resolveOrReject(a.res))
      ELSE a

\* new RowIteratorImpl before the next() of its constructor, for a row spec
\* without columns ({}): no column is expected and no cell type is checked.
RowIteratorImpl ==
  [batchIdx |-> -1, batchBytes |-> <<>>, numColumns |-> 0,
   cellTypesEnd |-> -1, nextCellTypeOff |-> 0, isValid |-> FALSE]

\* tryMoveToNextBatch: moved is its return value.
tryMoveToNextBatch(i, res) ==
  LET nextBatchIdx == i.batchIdx + 1
      batch == res.batches[nextBatchIdx + 1]
      on == [i EXCEPT !.numColumns = Len(res.columnNames),
                      !.batchIdx = nextBatchIdx,
                      !.batchBytes = batch.batchBytes,
                      !.nextCellTypeOff = batch.cellTypesOff,
                      !.cellTypesEnd = batch.cellTypesOff + batch.cellTypesLen]
  IN  IF nextBatchIdx >= Len(res.batches)
      THEN [threw |-> FALSE, moved |-> FALSE, i |-> i]
      ELSE IF numCells(batch) = 0
      THEN [threw |-> ~batch.isLastBatch, moved |-> FALSE, i |-> on]
      ELSE [threw |-> on.numColumns <= 0, moved |-> on.numColumns > 0,
            i |-> on]

\* The loop of next() that reads the cells of the current row, from column c.
RECURSIVE ReadRow(_, _)
ReadRow(i, c) ==
  IF c >= i.numColumns THEN [threw |-> FALSE, i |-> [i EXCEPT !.isValid = TRUE]]
  ELSE LET cellType == i.batchBytes[i.nextCellTypeOff + 1]
           read == [i EXCEPT !.nextCellTypeOff = @ + 1]
       IN  IF cellType \in {CELL_NULL, CELL_VARINT, CELL_FLOAT64, CELL_STRING}
           THEN ReadRow(read, c + 1)
           ELSE [threw |-> TRUE, i |-> read]

\* next(): the loop that moves to the next batch, then the row.
RECURSIVE next(_, _)
next(i, res) ==
  IF i.nextCellTypeOff + i.numColumns > i.cellTypesEnd
  THEN IF ~(i.nextCellTypeOff = i.cellTypesEnd \/ i.cellTypesEnd = -1)
       THEN [threw |-> TRUE, i |-> i]
       ELSE LET m == tryMoveToNextBatch(i, res)
            IN  IF m.threw THEN [threw |-> TRUE, i |-> m.i]
                ELSE IF ~m.moved
                THEN [threw |-> FALSE, i |-> [m.i EXCEPT !.isValid = FALSE]]
                ELSE next(m.i, res)
  ELSE ReadRow(i, 0)

\* The messages the engine appends: the first one with its column name, rows
\* that follow, a last batch with rows, the empty last batch that ends a
\* result, an error with it, an empty error, an empty batch in the middle, a
\* last batch followed by another one, a blob cell, two columns, a column
\* name behind a batch.
Messages ==
  {<<ColumnNameField("a"), BatchField(CellsBatch(<<CELL_VARINT>>, FALSE))>>,
   <<BatchField(CellsBatch(<<CELL_NULL, CELL_STRING>>, FALSE))>>,
   <<BatchField(PaddedCellsBatch(<<CELL_FLOAT64>>, TRUE))>>,
   <<BatchField(CellsBatch(<<>>, TRUE))>>,
   <<ErrorField("E"), BatchField(CellsBatch(<<>>, TRUE))>>,
   <<ErrorField(""), UnknownField>>,
   <<BatchField(CellsBatch(<<>>, FALSE))>>,
   <<BatchField(CellsBatch(<<CELL_VARINT>>, TRUE)),
     BatchField(CellsBatch(<<CELL_VARINT>>, FALSE))>>,
   <<BatchField(CellsBatch(<<CELL_BLOB>>, FALSE))>>,
   <<ColumnNameField("a"), ColumnNameField("b"),
     BatchField(CellsBatch(<<CELL_NULL, CELL_VARINT>>, FALSE))>>,
   <<ColumnNameField("a"), BatchField(CellsBatch(<<CELL_NULL>>, FALSE)),
     ColumnNameField("b")>>}

\* Calls made on one query result in a run.
MaxCalls == 5

VARIABLES
  bv,      \* the two BitVectors
  dst,     \* the BitVector messages are deserialized into
  msg,     \* the message last serialized, or received
  last,    \* the operation that led to this state, with its arguments
  prev,    \* bv before that operation
  prevDst, \* dst before that operation
  status,  \* "ok", "aborted" (a CHECK or DCHECK failed), "undefined"
  steps,   \* operations so far
  resultObj, \* the QueryResultImpl
  iter,      \* the RowIteratorImpl made by iter(), or undefined
  visited,   \* the rows the iterator was valid on, in the order of its calls
  received,  \* the error fields handed to appendResultBatch, in order
  deposit    \* the arguments of a PdepSlow call, and what it returned

vars ==
  <<bv, dst, msg, last, prev, prevDst, status, steps, resultObj, iter, visited,
    received, deposit>>

\* No call of PdepSlow by itself.
NoDeposit ==
  deposit = [word |-> {}, mask |-> {}, called |-> FALSE, result |-> {}]

\* The BitVector runs make no query.
NoQuery ==
  /\ resultObj = QueryResultImpl
  /\ iter = undefined
  /\ visited = <<>>
  /\ received = <<>>

Op(op, t, o, n, m, flag, out) ==
  [op |-> op, t |-> t, o |-> o, n |-> n, m |-> m, flag |-> flag, out |-> out]

\* Every pair of constructed BitVectors, in one order: the operations below
\* take either one as their target.
Init ==
  /\ \E i \in 1 .. Len(Constructed) : \E j \in i .. Len(Constructed) :
       bv = [t \in Vecs |-> IF t = 1 THEN Constructed[i] ELSE Constructed[j]]
  /\ dst = EmptyBV
  /\ msg = NoMsg
  /\ last = Op("Init", 0, 0, 0, 0, FALSE, <<>>)
  /\ prev = bv
  /\ prevDst = dst
  /\ status = "ok"
  /\ steps = 0
  /\ NoQuery
  /\ NoDeposit

\* The process runs, and the run has operations left.
Running ==
  /\ status = "ok"
  /\ steps < MaxSteps

\* What every operation does besides its own effect.
Step(op) ==
  /\ Running
  /\ steps' = steps + 1
  /\ last' = op
  /\ prev' = bv
  /\ prevDst' = dst
  /\ UNCHANGED <<resultObj, iter, visited, received, deposit>>

\* The operation ran to its end and left r in bv[t].
Returns(t, r) ==
  /\ bv' = [bv EXCEPT ![t] = r]
  /\ status' = "ok"

\* The operation ended the process: a PERFETTO_CHECK failed, or a
\* PERFETTO_DCHECK in a build that has them.
Aborts ==
  /\ bv' = bv
  /\ status' = "aborted"

\* The operation left the defined behaviour of C++.
Undefined ==
  /\ bv' = bv
  /\ status' = "undefined"

\* Resize that gives no storage back when it shrinks: words_ and counts_
\* keep their lengths, the words after the new last block are zeroed.
DoResizeKeepsBlocks(t, new_size, filler) ==
  /\ Step(Op("Resize", t, 0, new_size, 0, filler, <<>>))
  /\ Returns(t, LET r == Resize(bv[t], new_size, filler)
                IN IF 0 < new_size /\ new_size < bv[t].size
                     THEN [size |-> r.size,
                           words |-> VecResize(r.words, Len(bv[t].words), {}),
                           counts |-> VecResize(r.counts, Len(bv[t].counts),
                                                CountSetBits(r))]
                     ELSE r)
  /\ UNCHANGED <<dst, msg>>

\* Resize whose new_size == 0 branch sets size_ alone: words_ and counts_
\* keep what they held.
DoResizeKeepsStorage(t, new_size, filler) ==
  /\ Step(Op("Resize", t, 0, new_size, 0, filler, <<>>))
  /\ Returns(t, IF new_size = 0 THEN [bv[t] EXCEPT !.size = 0]
                ELSE Resize(bv[t], new_size, filler))
  /\ UNCHANGED <<dst, msg>>

DoResize(t, new_size, filler) ==
  /\ Step(Op("Resize", t, 0, new_size, 0, filler, <<>>))
  /\ Returns(t, Resize(bv[t], new_size, filler))
  /\ UNCHANGED <<dst, msg>>

DoAppendTrue(t) ==
  /\ Step(Op("AppendTrue", t, 0, 0, 0, FALSE, <<>>))
  /\ Returns(t, AppendTrue(bv[t]))
  /\ UNCHANGED <<dst, msg>>

DoAppendFalse(t) ==
  /\ Step(Op("AppendFalse", t, 0, 0, 0, FALSE, <<>>))
  /\ Returns(t, AppendFalse(bv[t]))
  /\ UNCHANGED <<dst, msg>>

DoNot(t) ==
  /\ Step(Op("Not", t, 0, 0, 0, FALSE, <<>>))
  /\ Returns(t, Not(bv[t]))
  /\ UNCHANGED <<dst, msg>>

\* Or written as And is: instead of the PERFETTO_CHECK, this is cut to the
\* shorter of the two sizes.
DoOrResizes(t, o) ==
  /\ Step(Op("Or", t, o, 0, 0, FALSE, <<>>))
  /\ Returns(t, Or(Resize(bv[t],
                          (IF bv[t].size < bv[o].size THEN bv[t].size
                           ELSE bv[o].size),
                          FALSE),
                   bv[o]))
  /\ UNCHANGED <<dst, msg>>

\* bv[t].Or(bv[o]): PERFETTO_CHECK(size_ == sec.size()) ends the process in
\* every build.
DoOr(t, o) ==
  /\ Step(Op("Or", t, o, 0, 0, FALSE, <<>>))
  /\ IF bv[t].size = bv[o].size
       THEN Returns(t, Or(bv[t], bv[o]))
       ELSE Aborts
  /\ UNCHANGED <<dst, msg>>

DoAnd(t, o) ==
  /\ Step(Op("And", t, o, 0, 0, FALSE, <<>>))
  /\ Returns(t, And(bv[t], bv[o]))
  /\ UNCHANGED <<dst, msg>>

DoUpdateSetBits(t, o) ==
  /\ Step(Op("UpdateSetBits", t, o, 0, 0, FALSE, <<>>))
  /\ \/ Returns(t, UpdateSetBits(bv[t], bv[o]))
     \/ ~UpdateSetBitsDchecks(bv[t], bv[o]) /\ Aborts
  /\ UNCHANGED <<dst, msg>>

\* bv[t].SelectBits(bv[o]). The behaviour is undefined when
\* mask_bv.CountSetBits(size_) reads outside counts_, when the Builder writes
\* outside its words, and when the loop uses an index the iterator never
\* read.
DoSelectBits(t, o) ==
  /\ Step(Op("SelectBits", t, o, 0, 0, FALSE, <<>>))
  /\ IF ~CountSetBitsEndInBounds(bv[o], bv[t].size)
       THEN Undefined
       ELSE \E end \in {SelectBitsEnd(bv[t], bv[o])} :
              IF end.it.ub \/ end.res.ub
                THEN Undefined
                ELSE \/ Returns(t, Build(end.res))
                     \/ (end.it.dcheck \/ end.res.dcheck) /\ Aborts
  /\ UNCHANGED <<dst, msg>>

\* bv[t] = bv[o].IntersectRange(range_start, range_end).
DoIntersectRange(t, o, range_start, range_end) ==
  /\ Step(Op("IntersectRange", t, o, range_start, range_end, FALSE, <<>>))
  /\ Returns(t, IntersectRange(bv[o], range_start, range_end))
  /\ UNCHANGED <<dst, msg>>

\* Copy() that moves words_ and counts_ out of the original instead of
\* copying them: the original is left without storage.
DoCopyMoves(t, o) ==
  /\ Step(Op("Copy", t, o, 0, 0, FALSE, <<>>))
  /\ bv' = [bv EXCEPT ![t] = Copy(bv[o]), ![o] = EmptyBV]
  /\ status' = "ok"
  /\ UNCHANGED <<dst, msg>>

\* bv[t] = bv[o].Copy(): words_ and counts_ are passed by value to the
\* constructor, so the new BitVector owns copies of both vectors.
DoCopy(t, o) ==
  /\ Step(Op("Copy", t, o, 0, 0, FALSE, <<>>))
  /\ Returns(t, Copy(bv[o]))
  /\ UNCHANGED <<dst, msg>>

DoGetSetBitIndices(o) ==
  Running /\ \E end \in {GetSetBitIndicesEnd(bv[o])} :
    /\ Step(Op("GetSetBitIndices", 0, o, 0, 0, FALSE,
               IF end.it.ub THEN <<>> ELSE end.res))
    /\ IF end.it.ub THEN Undefined
       ELSE \/ bv' = bv /\ status' = "ok"
            \/ end.it.dcheck /\ Aborts
    /\ UNCHANGED <<dst, msg>>

DoSerialize(o) ==
  /\ Step(Op("Serialize", 0, o, 0, 0, FALSE, <<>>))
  /\ msg' = Serialize(bv[o])
  /\ bv' = bv /\ status' = "ok"
  /\ UNCHANGED dst

\* A message arrives from outside.
Receive(m) ==
  /\ Step(Op("Receive", 0, 0, 0, 0, FALSE, <<>>))
  /\ msg' = m
  /\ bv' = bv /\ status' = "ok"
  /\ UNCHANGED dst

\* dst.Deserialize(msg). Deserialize returns void and tests nothing but
\* has_counts() and has_words(): it refuses no message.
DoDeserialize ==
  /\ Step(Op("Deserialize", 0, 0, 0, 0, FALSE, <<>>))
  /\ bv' = bv
  /\ \/ dst' = Deserialize(dst, msg) /\ status' = "ok"
     \/ DeserializeOverflows(msg) /\ dst' = dst /\ status' = "undefined"
  /\ UNCHANGED msg

Next ==
  \/ \E t \in Vecs, n \in ResizeSizes, f \in BOOLEAN : DoResize(t, n, f)
  \/ \E t \in Vecs : DoAppendTrue(t)
  \/ \E t \in Vecs : DoAppendFalse(t)
  \/ \E t \in Vecs : DoNot(t)
  \/ \E t \in Vecs : \E o \in Vecs \ {t} : DoOr(t, o)
  \/ \E t \in Vecs : \E o \in Vecs \ {t} : DoAnd(t, o)
  \/ \E t \in Vecs : \E o \in Vecs \ {t} : DoUpdateSetBits(t, o)
  \/ \E t \in Vecs : \E o \in Vecs \ {t} : DoSelectBits(t, o)
  \/ \E t \in Vecs : \E o \in Vecs \ {t}, r \in Ranges :
       DoIntersectRange(t, o, r[1], r[2])
  \/ \E t \in Vecs : \E o \in Vecs \ {t} : DoCopy(t, o)
  \/ \E o \in Vecs : DoGetSetBitIndices(o)

Spec == Init /\ [][Next]_vars

\* The serializer: bv[1] is written to a message, or a message arrives from
\* outside, and dst reads it. dst is any BitVector: one that holds fewer
\* blocks than the message, or more.
Serialized ==
  {Constructed[i] : i \in 1 .. Len(Constructed)}
    \cup {Resize(BitVectorFill(512, TRUE), 600, TRUE),
          Resize(BitVectorFill(70, TRUE), 1030, FALSE),
          Not(BitVectorFill(600, FALSE))}

Targets ==
  {EmptyBV, BitVectorFill(1030, TRUE),
   FromInitializerList(<<FALSE, TRUE, TRUE>>, EmptyBV)}

SerializerInit ==
  /\ bv \in [Vecs -> Serialized]
  /\ bv[2] = EmptyBV
  /\ dst \in Targets
  /\ msg = NoMsg
  /\ last = Op("Init", 0, 0, 0, 0, FALSE, <<>>)
  /\ prev = bv
  /\ prevDst = dst
  /\ status = "ok"
  /\ steps = 0
  /\ NoQuery
  /\ NoDeposit

SerializerNext ==
  \/ DoSerialize(1)
  \/ \E m \in ForgedMsgs : Receive(m)
  \/ DoDeserialize

SerializerSpec == SerializerInit /\ [][SerializerNext]_vars

\* The static factory: bv[t] = BitVector::FromSortedIndexVector(indices).
\* A write outside words is undefined behaviour.
DoFromSortedIndexVector(t, indices) ==
  /\ Step(Op("FromSortedIndexVector", t, 0, 0, 0, FALSE, indices))
  /\ IF FromSortedIndexVectorOverflows(indices)
       THEN Undefined
       ELSE Returns(t, FromSortedIndexVector(indices))
  /\ UNCHANGED <<dst, msg>>

\* The longest list of indices.
MaxIndices == 3

\* The indices of the lists: inside the first word, the first block and the
\* third, and 2^32 - 1, 2^32 + 5 and 2^38 + 5.
IndexValues ==
  {Int64(2), Int64(5), Int64(9), Int64(64), Int64(1030),
   [hi |-> 3, lo |-> Limb - 1], [hi |-> 4, lo |-> 5], [hi |-> 256, lo |-> 5]}

\* i <= j.
Int64Leq(i, j) == i.hi < j.hi \/ (i.hi = j.hi /\ i.lo <= j.lo)

\* The ascending lists of at most MaxIndices indices, an index listed twice
\* included.
IndexVectors ==
  {indices \in UNION {[1 .. n -> IndexValues] : n \in 0 .. MaxIndices} :
     \A k \in 1 .. Len(indices) - 1 : Int64Leq(indices[k], indices[k + 1])}

\* The factory alone, called for each of two BitVectors.
FactoryInit ==
  /\ bv = [t \in Vecs |-> EmptyBV]
  /\ dst = EmptyBV
  /\ msg = NoMsg
  /\ last = Op("Init", 0, 0, 0, 0, FALSE, <<>>)
  /\ prev = bv
  /\ prevDst = dst
  /\ status = "ok"
  /\ steps = 0
  /\ NoQuery
  /\ NoDeposit

FactoryNext ==
  \E t \in Vecs : \E indices \in IndexVectors :
    DoFromSortedIndexVector(t, indices)

FactorySpec == FactoryInit /\ [][FactoryNext]_vars

\* A run that goes on from a BitVector some earlier Resize grew: the
\* BitVector(512, true) of Constructed after Resize(600, true) or
\* Resize(1030, true), beside any constructed BitVector.
Grown ==
  {Resize(BitVectorFill(512, TRUE), 600, TRUE),
   Resize(BitVectorFill(512, TRUE), 1030, TRUE)}

GrownInit ==
  /\ \E g \in Grown : \E j \in 1 .. Len(Constructed) :
       bv = [t \in Vecs |-> IF t = 1 THEN g ELSE Constructed[j]]
  /\ dst = EmptyBV
  /\ msg = NoMsg
  /\ last = Op("Init", 0, 0, 0, 0, FALSE, <<>>)
  /\ prev = bv
  /\ prevDst = dst
  /\ status = "ok"
  /\ steps = 0
  /\ NoQuery
  /\ NoDeposit

GrownSpec == GrownInit /\ [][Next]_vars

\* ---------------------------------------------------------------------------
\* One query result, fed by the engine and read by the UI.
\* ---------------------------------------------------------------------------

\* createQueryResult(): no batch, no promise, no iterator.
QueryInit ==
  /\ bv = [t \in Vecs |-> EmptyBV]
  /\ dst = EmptyBV
  /\ msg = NoMsg
  /\ last = Op("Init", 0, 0, 0, 0, FALSE, <<>>)
  /\ prev = bv
  /\ prevDst = dst
  /\ status = "ok"
  /\ steps = 0
  /\ NoQuery
  /\ NoDeposit

\* What every call on the query result does besides its own effect; a call
\* that throws leaves the objects as they were when it threw, and its caller
\* goes on.
Call(op, threw) ==
  /\ steps < MaxCalls
  /\ steps' = steps + 1
  /\ last' = Op(op, 0, 0, 0, 0, threw, <<>>)
  /\ UNCHANGED <<bv, dst, msg, prev, prevDst, status, deposit>>

\* The error fields of a message.
ErrorsOf(resBytes) ==
  SelectSeq([k \in 1 .. Len(resBytes) |-> resBytes[k]], LAMBDA f : f.tag = 2)

\* The engine: resultObj.appendResultBatch(resBytes).
DoAppendResultBatch(resBytes) ==
  LET a == appendResultBatch(resultObj, resBytes)
  IN  /\ Call("appendResultBatch", a.threw)
      /\ resultObj' = a.res
      /\ received' = received \o [k \in 1 .. Len(ErrorsOf(resBytes)) |->
                                    ErrorsOf(resBytes)[k].s]
      /\ UNCHANGED <<iter, visited>>

\* The UI: resultObj.waitAllRows().
DoWaitAllRows ==
  LET a == waitAllRows(resultObj)
  IN  /\ Call("waitAllRows", a.threw)
      /\ resultObj' = a.res
      /\ UNCHANGED <<iter, visited, received>>

\* The row the iterator i stands on: its batch and the offset of its first
\* cell.
CurrentRow(i) == <<i.batchIdx, i.nextCellTypeOff - i.numColumns>>

\* next() on the iterator i, and the row it stopped on if it is valid; a
\* constructor that throws hands no iterator to its caller.
Advance(op, i) ==
  LET a == next(i, resultObj)
  IN  /\ Call(op, a.threw)
      /\ iter' = IF op = "iter" /\ a.threw THEN undefined ELSE Some(a.i)
      /\ visited' = IF ~a.threw /\ a.i.isValid
                    THEN Append(visited, CurrentRow(a.i))
                    ELSE visited
      /\ UNCHANGED <<resultObj, received>>

\* The UI: resultObj.iter({}), whose constructor calls next().
DoIter ==
  /\ iter = undefined
  /\ Advance("iter", RowIteratorImpl)

\* The UI: next() on that iterator.
DoNext ==
  /\ iter # undefined
  /\ Advance("next", iter[1])

QueryNext ==
  \/ \E resBytes \in Messages : DoAppendResultBatch(resBytes)
  \/ DoWaitAllRows
  \/ DoIter
  \/ DoNext

QuerySpec == QueryInit /\ [][QueryNext]_vars

\* ---------------------------------------------------------------------------
\* PdepSlow by itself, on words and masks of 64 bits.
\* ---------------------------------------------------------------------------

\* The words: every choice among a few low, middle and high bits, and the
\* words with all bits, all but the highest, all but the lowest, either half,
\* every other bit.
PdepWords ==
  SUBSET {0, 1, 2, 5, 63}
    \cup {AllOnes, 0 .. 62, 1 .. 63, 0 .. 31, 32 .. 63,
          {b \in AllOnes : b % 2 = 0}, {b \in AllOnes : b % 2 = 1}}

\* The masks, chosen the same way around other bits.
PdepMasks ==
  SUBSET {0, 3, 4, 62, 63}
    \cup {AllOnes, 0 .. 62, 1 .. 63, 0 .. 31, 32 .. 63,
          {b \in AllOnes : b % 2 = 0}, {b \in AllOnes : b % 2 = 1}}

\* A word and a mask, before the call.
PdepInit ==
  /\ bv = [t \in Vecs |-> EmptyBV]
  /\ dst = EmptyBV
  /\ msg = NoMsg
  /\ last = Op("Init", 0, 0, 0, 0, FALSE, <<>>)
  /\ prev = bv
  /\ prevDst = dst
  /\ status = "ok"
  /\ steps = 0
  /\ NoQuery
  /\ \E word \in PdepWords : \E mask \in PdepMasks :
       deposit = [word |-> word, mask |-> mask, called |-> FALSE,
                  result |-> {}]

\* PdepSlow(word, mask).
DoPdepSlow ==
  /\ ~deposit.called
  /\ deposit' = [deposit EXCEPT !.called = TRUE,
                                !.result = PdepSlow(deposit.word, deposit.mask)]
  /\ steps' = steps + 1
  /\ last' = Op("PdepSlow", 0, 0, 0, 0, FALSE, <<>>)
  /\ UNCHANGED <<bv, dst, msg, prev, prevDst, status, resultObj, iter, visited,
                 received>>

PdepSpec == PdepInit /\ [][DoPdepSlow]_vars

\* ------------------------------------------------------------ properties

\* Bit i of b, read from its words alone.
Bit(b, i) == (i % kBitsInWord) \in b.words[(i \div kBitsInWord) + 1]

\* The positions below size at which b holds a set bit.
SetPositions(b) == {i \in 0 .. b.size - 1 : Bit(b, i)}

\* The number of set bits of block k of b (0-based), each bit counted.
Popcount(b, k) ==
  Cardinality({i \in k * kBitsInBlock .. (k + 1) * kBitsInBlock - 1 :
                 Bit(b, i)})

\* counts is the rank array of words.
RankInvariant(b) ==
  \A j \in 1 .. Len(b.counts) :
    b.counts[j] = IF j = 1 THEN 0 ELSE b.counts[j - 1] + Popcount(b, j - 2)

\* The operations C1, C3 and C4 call public mutations.
Mutations ==
  {"Resize", "AppendTrue", "AppendFalse", "Not", "Or", "And",
   "UpdateSetBits", "SelectBits"}

\* The operation that led to this state ran to its end.
Returned(op) == last.op = op /\ status = "ok"

\* C1: after a public mutation of a BitVector whose rank array was right,
\* counts[0] = 0 and counts[i] = counts[i-1] + popcount(block i-1) for every
\* block i > 0.
C1_RankArray ==
  (/\ last.op \in Mutations
   /\ status = "ok"
   /\ \A t \in Vecs : RankInvariant(prev[t]))
    => RankInvariant(bv[last.t])

\* C2: Resize(new_size, true) with new_size > size leaves every bit below
\* the old size unchanged, makes every bit in [old size, new_size) read as
\* set and increases CountSetBits() by new_size minus the old size.
C2_ResizeGrowTrue ==
  (/\ Returned("Resize")
   /\ last.flag
   /\ last.n > prev[last.t].size
   /\ RankInvariant(prev[last.t]))
    => LET old == prev[last.t]
           new == bv[last.t]
       IN /\ new.size = last.n
          /\ \A i \in 0 .. old.size - 1 : IsSet(new, i) = IsSet(old, i)
          /\ \A i \in old.size .. last.n - 1 : IsSet(new, i)
          /\ CountSetBits(new) = CountSetBits(old) + (last.n - old.size)

\* Every bit of the words of b at a global index >= size is 0.
PaddingIsZero(b) ==
  \A i \in 1 .. Len(b.words) :
    \A x \in b.words[i] : (i - 1) * kBitsInWord + x < b.size

\* C3: after any sequence of public mutations, every bit of the last
\* allocated block at a global index >= size is 0.
C3_TrailingPadding == status = "ok" => \A t \in Vecs : PaddingIsZero(bv[t])

\* C3's case: Not, or a shrinking Resize, left a BitVector that ends inside a
\* word whose bits below size are all set.
C3_Witness ==
  /\ Returned("Not") \/ (Returned("Resize") /\ last.n < prev[last.t].size)
  /\ bv[last.t].size % kBitsInWord # 0
  /\ bv[last.t].words[WordCount(bv[last.t].size)]
       = 0 .. ((bv[last.t].size - 1) % kBitsInWord)

\* The number of positions j < index at which b holds a set bit, read from
\* its words alone.
Rank(b, index) ==
  LET w == index \div kBitsInWord
  IN SumWords(b.words, 1, w)
       + (IF index % kBitsInWord = 0 THEN 0
          ELSE Cardinality({x \in b.words[w + 1] : x < index % kBitsInWord}))

\* C4: after any sequence of public mutations, CountSetBits(index) is the
\* number of set positions below index, for every index <= size, and
\* CountSetBits() is the number of set positions.
C4_CountSetBits ==
  (last.op \in Mutations /\ status = "ok")
    => LET b == bv[last.t]
       IN /\ \A index \in 0 .. b.size :
               CountSetBitsEnd(b, index) = Rank(b, index)
          /\ CountSetBits(b) = Cardinality(SetPositions(b))

\* C5: UpdateSetBits(update), when this and update hold a set bit and
\* update.size <= CountSetBits(this), runs to its end, keeps size, leaves
\* every unset bit unset, and leaves the k-th set bit of this equal to bit k
\* of update for k < update.size and 0 for k >= update.size.
C5_UpdateSetBits ==
  LET old == prev[last.t]
      update == prev[last.o]
  IN (/\ last.op = "UpdateSetBits"
      /\ SetPositions(old) # {}
      /\ SetPositions(update) # {}
      /\ update.size <= CountSetBits(old))
       => /\ status = "ok"
          /\ bv[last.t].size = old.size
          /\ \A i \in 0 .. old.size - 1 :
               Bit(bv[last.t], i)
                 = (/\ Bit(old, i)
                    /\ Rank(old, i) < update.size
                    /\ Bit(update, Rank(old, i)))

\* The smaller of two numbers.
Min(a, b) == IF a < b THEN a ELSE b

C7_SelectBits ==
  last.op = "SelectBits"
    => LET old == prev[last.t]
           mask == prev[last.o]
           selected == {p \in SetPositions(mask) : p < old.size}
       IN /\ status = "ok"
          /\ bv[last.t].size = Cardinality(selected)
          /\ \A p \in selected :
               Bit(bv[last.t], Rank(mask, p)) = Bit(old, p)

\* C8: GetSetBitIndices(), the drained IterateSetBits(), yields the positions
\* i < size with IsSet(i), each once and in ascending order, as many as
\* CountSetBits() tells.
C8_SetBitIndices ==
  last.op = "GetSetBitIndices"
    => LET b == bv[last.o]
           res == last.out
       IN /\ status = "ok"
          /\ \A k \in 1 .. Len(res) - 1 : res[k] < res[k + 1]
          /\ {res[k] : k \in 1 .. Len(res)} = SetPositions(b)
          /\ Len(res) = CountSetBits(b)

\* A message no Serialize writes: a byte length that is no multiple of the
\* element size, or arrays that do not fit the declared size.
Malformed(m) ==
  \/ m.has_counts /\ Len(m.counts) % 4 # 0
  \/ m.has_words /\ Len(m.words) % 8 # 0
  \/ (IF m.has_counts THEN Len(m.counts) ELSE 0) # 4 * BlockCount(m.size)
  \/ (IF m.has_words THEN Len(m.words) ELSE 0)
       # 8 * kWords * BlockCount(m.size)

\* C9: Deserialize rejects malformed input with a decode error: it leaves
\* its target as it was, and never with the arrays of the message cut to
\* whole elements or a size its arrays do not hold.
C9_DeserializeRejects ==
  (last.op = "Deserialize" /\ Malformed(msg))
    => /\ status = "decode error"
       /\ dst = prevDst

\* C10: deserializing the output of Serialize(v) into any BitVector yields
\* the size, the counts and the words of v.
C10_RoundTrip ==
  (last.op = "Deserialize" /\ msg = Serialize(bv[1]))
    => /\ status = "ok"
       /\ dst.size = bv[1].size
       /\ dst.counts = bv[1].counts
       /\ dst.words = bv[1].words

\* C10's case: a BitVector of several blocks, serialized and read into a
\* BitVector that held more blocks or fewer.
C10_Witness ==
  /\ Returned("Deserialize")
  /\ msg = Serialize(bv[1])
  /\ Len(bv[1].counts) > 1
  /\ CountSetBits(bv[1]) > 0
  /\ Len(prevDst.counts) # Len(bv[1].counts)
  /\ dst = bv[1]

\* C11: UpdateSetBits(update) called with update.size > CountSetBits(this)
\* aborts, also when update or this has no set bit: it never returns.
C11_UpdateSetBitsFailsFast ==
  (/\ last.op = "UpdateSetBits"
   /\ prev[last.o].size > CountSetBits(prev[last.t]))
    => status = "aborted"

\* C12: UpdateSetBits(update) leaves this empty (size 0, no words, no
\* counts) whenever update holds no set bit or this holds no set bit,
\* whatever the two sizes.
C12_UpdateSetBitsResets ==
  (/\ last.op = "UpdateSetBits"
   /\ \/ SetPositions(prev[last.o]) = {}
      \/ SetPositions(prev[last.t]) = {})
    => /\ status = "ok"
       /\ bv[last.t] = EmptyBV

\* C13: after Not(), a second Not() restores the BitVector exactly: the
\* size, the words and the counts it had before the first, also when size is
\* no multiple of the block width and when the BitVector is empty.
C13_NotTwice == Returned("Not") => Not(bv[last.t]) = prev[last.t]

\* C13's case: Not() on a BitVector of several blocks that ends inside a
\* block and holds set and unset bits, which a second Not() restores.
C13_Witness ==
  /\ Returned("Not")
  /\ Len(prev[last.t].counts) > 1
  /\ prev[last.t].size % kBitsInBlock # 0
  /\ SetPositions(prev[last.t]) # {}
  /\ SetPositions(bv[last.t]) # {}
  /\ bv[last.t] # prev[last.t]
  /\ Not(bv[last.t]) = prev[last.t]

\* C14: a.And(b) leaves a with size min(a.size, b.size) and bit i equal to
\* (old a bit i and b bit i) for every i below that size, leaves b as it
\* was, and leaves in a the size, the bits and the counts that b.And(a)
\* leaves in b; for operands of different sizes and block counts, and when
\* either is empty.
C14_And ==
  Returned("And")
    => LET a == prev[last.t]
           b == prev[last.o]
           res == bv[last.t]
           sym == And(b, a)
       IN /\ res.size = Min(a.size, b.size)
          /\ \A i \in 0 .. res.size - 1 : Bit(res, i) = (Bit(a, i) /\ Bit(b, i))
          /\ bv[last.o] = b
          /\ sym.size = res.size
          /\ \A i \in 0 .. res.size - 1 : Bit(sym, i) = Bit(res, i)
          /\ sym.counts = res.counts

\* C14's case: And of a BitVector with a shorter one of fewer blocks, more
\* than one, whose result holds set bits and is not the shorter operand.
C14_Witness ==
  /\ Returned("And")
  /\ Len(prev[last.t].counts) > Len(prev[last.o].counts)
  /\ Len(prev[last.o].counts) > 1
  /\ bv[last.t].counts[Len(bv[last.t].counts)] > 0
  /\ bv[last.t].counts # prev[last.o].counts
  /\ SetPositions(bv[last.t]) # SetPositions(prev[last.o])

\* C15: for a and b of equal size, a.Or(b) leaves a with bit i equal to
\* (old a bit i or b bit i) for every i < size, with CountSetBits() the
\* popcount of its words, and with the bits and the counts that b.Or(a)
\* leaves in b.
C15_Or ==
  (last.op = "Or" /\ prev[last.t].size = prev[last.o].size)
    => LET a == prev[last.t]
           b == prev[last.o]
           res == bv[last.t]
           sym == Or(b, a)
       IN /\ status = "ok"
          /\ res.size = a.size
          /\ \A i \in 0 .. a.size - 1 : Bit(res, i) = (Bit(a, i) \/ Bit(b, i))
          /\ CountSetBits(res) = SumWords(res.words, 1, Len(res.words))
          /\ \A i \in 0 .. a.size - 1 : Bit(sym, i) = Bit(res, i)
          /\ sym.counts = res.counts

\* C15's case: Or of two different BitVectors of several blocks, each
\* holding a set bit the other does not.
C15_Witness ==
  /\ Returned("Or")
  /\ Len(prev[last.t].counts) > 1
  /\ SetPositions(prev[last.t]) \ SetPositions(prev[last.o]) # {}
  /\ SetPositions(prev[last.o]) \ SetPositions(prev[last.t]) # {}
  /\ bv[last.t].counts[Len(bv[last.t].counts)] > 0

\* C16: Or(other) with size != other.size aborts, and no word and no count
\* of this is modified.
C16_OrSizeMismatch ==
  (last.op = "Or" /\ prev[last.t].size # prev[last.o].size)
    => /\ status = "aborted"
       /\ bv = prev

\* C16's case: Or of a BitVector with a longer one, and with a shorter one.
C16_Witness ==
  /\ last.op = "Or"
  /\ status = "aborted"
  /\ prev[last.t].size # 0
  /\ prev[last.o].size # 0
  /\ prev[last.t].size # prev[last.o].size
  /\ bv = prev

\* C17: FromSortedIndexVector(indices), for an ascending list of indices
\* none of which is negative, returns a BitVector of size indices.back() + 1
\* in which IsSet(i) holds for the listed i and no other and CountSetBits()
\* is the number of different indices listed, with words.length ==
\* BLOCK_WORDS * counts.length, counts the rank array and the padding zero;
\* for the empty list it returns the empty BitVector.
C17_FromSortedIndexVector ==
  last.op = "FromSortedIndexVector"
    => LET indices == last.out
           res == bv[last.t]
           listed == {indices[k] : k \in 1 .. Len(indices)}
       IN /\ status = "ok"
          /\ IF indices = <<>> THEN res = EmptyBV
             ELSE /\ Int64(res.size) = Int64Plus1(indices[Len(indices)])
                  /\ \A i \in 0 .. res.size - 1 :
                       IsSet(res, i) = (Int64(i) \in listed)
                  /\ CountSetBits(res) = Cardinality(listed)
                  /\ Len(res.words) = kWords * Len(res.counts)
                  /\ RankInvariant(res)
                  /\ PaddingIsZero(res)

\* C18: Deserialize of a message without counts, or without words, leaves
\* that array of the target empty, whatever it held; deserializing the
\* serialization of an empty BitVector leaves the target with size 0, no
\* counts and no words.
C18_DeserializeAbsent ==
  Returned("Deserialize")
    => /\ ~msg.has_counts => dst.counts = <<>>
       /\ ~msg.has_words => dst.words = <<>>
       /\ msg = Serialize(EmptyBV) => dst = EmptyBV

\* C18's case: the serialization of an empty BitVector, read into a
\* BitVector that held counts and words.
C18_Witness ==
  /\ Returned("Deserialize")
  /\ bv[1] = EmptyBV
  /\ msg = Serialize(bv[1])
  /\ ~msg.has_counts
  /\ ~msg.has_words
  /\ Len(prevDst.counts) > 1
  /\ CountSetBits(prevDst) > 0
  /\ dst = EmptyBV

\* What a growing Resize(m, false) leaves of a BitVector b: size m, the bits
\* below b.size as they were, every bit from b.size on unset, and
\* CountSetBits() as it was.
GrownWithFalse(b, grown, m) ==
  /\ grown.size = m
  /\ \A i \in 0 .. b.size - 1 : Bit(grown, i) = Bit(b, i)
  /\ \A i \in b.size .. m - 1 : ~Bit(grown, i)
  /\ CountSetBits(grown) = CountSetBits(b)

\* C19: a shrinking Resize(new_size), 0 < new_size < size, leaves every bit
\* below new_size as it was and CountSetBits() equal to what
\* CountSetBits(new_size) returned before the call; a growing
\* Resize(m, false), after it or at any time, leaves the bits below the
\* size as they were, every bit from the size to m unset, also where it was
\* set before the shrink, and CountSetBits() as it was.
C19_ShrinkThenGrow ==
  LET old == prev[last.t]
      new == bv[last.t]
  IN /\ (Returned("Resize") /\ 0 < last.n /\ last.n < old.size)
          => /\ new.size = last.n
             /\ \A i \in 0 .. last.n - 1 : Bit(new, i) = Bit(old, i)
             /\ CountSetBits(new) = CountSetBitsEnd(old, last.n)
             /\ \A m \in ResizeSizes :
                  m > new.size => GrownWithFalse(new, Resize(new, m, FALSE), m)
     /\ (Returned("Resize") /\ ~last.flag /\ last.n > old.size)
          => GrownWithFalse(old, new, last.n)

\* C19's case: a shrink to the inside of a word that cuts set bits off, some
\* of them in the block that stays, where a later Resize(512, false) grows
\* over them.
C19_Witness ==
  /\ Returned("Resize")
  /\ 0 < last.n
  /\ last.n < prev[last.t].size
  /\ last.n % kBitsInWord # 0
  /\ CountSetBits(bv[last.t]) > 0
  /\ \E i \in last.n .. kBitsInBlock - 1 :
       /\ i < prev[last.t].size
       /\ Bit(prev[last.t], i)
       /\ ~Bit(Resize(bv[last.t], kBitsInBlock, FALSE), i)

\* C20: after any sequence of public mutations,
\* words.length == BLOCK_WORDS * counts.length.
C20_WordsPerBlock ==
  \A t \in Vecs : Len(bv[t].words) = kWords * Len(bv[t].counts)

\* C20's case: a mutation that left a BitVector with another number of
\* blocks than it had, or with none.
C20_Witness ==
  /\ last.op \in Mutations
  /\ status = "ok"
  /\ Len(bv[last.t].counts) # Len(prev[last.t].counts)
  /\ Len(bv[last.t].words) = kWords * Len(bv[last.t].counts)
  /\ \/ Len(bv[last.t].counts) > 1
     \/ bv[last.t] = EmptyBV

\* C21: Resize(0) leaves size 0, no words and no counts, whatever filler is;
\* Resize(size) with the current size changes nothing, also with filler =
\* true.
C21_ResizeZeroOrSame ==
  Returned("Resize")
    => /\ last.n = 0 => bv[last.t] = EmptyBV
       /\ last.n = prev[last.t].size => bv[last.t] = prev[last.t]

\* C21's case: Resize(0, true) on a BitVector of several blocks that holds
\* set bits.
C21_Witness ==
  /\ Returned("Resize")
  /\ last.n = 0
  /\ last.flag
  /\ Len(prev[last.t].counts) > 1
  /\ CountSetBits(prev[last.t]) > 0
  /\ bv[last.t] = EmptyBV

\* C22: Copy() returns a BitVector with the size, the words and the counts
\* of the original and leaves the original as it was; a later mutation of
\* either of the two leaves the other as it was.
C22_Copy ==
  /\ Returned("Copy")
       => /\ bv[last.t] = prev[last.o]
          /\ bv[last.o] = prev[last.o]
  /\ (last.op \in Mutations /\ prev[1] = prev[2])
       => \A u \in Vecs \ {last.t} : bv[u] = prev[u]

\* C22's case: of a BitVector of several blocks and its equal, one is
\* mutated and differs from the other, which is as it was.
C22_Witness ==
  /\ last.op \in Mutations
  /\ status = "ok"
  /\ prev[1] = prev[2]
  /\ Len(prev[1].counts) > 1
  /\ CountSetBits(prev[1]) > 0
  /\ bv[last.t] # prev[last.t]
  /\ \A u \in Vecs \ {last.t} : bv[u] = prev[u]

RECURSIVE BatchesLoop(_, _)
\* The batches the iterator it over b holds, one per ReadSetBitBatch call,
\* from the one it holds now to the last: kBatchSize calls of Next() lead
\* from a batch to the next.
BatchesLoop(b, it) ==
  LET after == GetSetBitIndicesLoop(b, it, 0, kBatchSize).it
  IN <<it.batch>>
       \o (IF IteratorValid(after) /\ ~after.ub THEN BatchesLoop(b, after)
           ELSE <<>>)

\* The batches ReadSetBitBatch fills while IterateSetBits() over b is
\* drained.
Batches(b) ==
  LET it == IterateSetBits(b)
  IN IF IteratorValid(it) /\ ~it.ub THEN BatchesLoop(b, it) ELSE <<>>

\* C23: each ReadSetBitBatch(start_idx) of a drained iterator fills the batch
\* with the next min(kBatchSize, remaining) set positions from start_idx on,
\* in ascending order: no set bit is jumped over, no batch is missing, and
\* entry k of batch j is the set position of rank j * kBatchSize + k.
C23_ReadSetBitBatch ==
  last.op = "GetSetBitIndices"
    => LET b == bv[last.o]
           n == Cardinality(SetPositions(b))
           bs == Batches(b)
       IN /\ Len(bs) = (n + kBatchSize - 1) \div kBatchSize
          /\ \A j \in 1 .. Len(bs) :
               \A k \in 1 .. Min(kBatchSize, n - (j - 1) * kBatchSize) :
                 LET e == bs[j][k]
                 IN /\ e # Indeterminate
                    /\ e < b.size
                    /\ Bit(b, e)
                    /\ Rank(b, e) = (j - 1) * kBatchSize + k - 1

\* C24: an iterator built on a BitVector of which CountSetBits() returns n is
\* exhausted at once when n = 0 and starts on the lowest set position
\* otherwise; it is valid through n - 1 calls of Next() and exhausted by the
\* n-th; and each ReadSetBitBatch that runs to the end of the vector has
\* seen n set bits.
C24_IteratorLifecycle ==
  last.op = "GetSetBitIndices"
    => LET b == bv[last.o]
           n == CountSetBits(b)
           it == IterateSetBits(b)
           end == GetSetBitIndicesEnd(b)
       IN /\ n = 0 => ~IteratorValid(it)
          /\ n > 0 => /\ IteratorValid(it)
                      /\ ~it.ub
                      /\ Bit(b, it.index)
                      /\ \A p \in SetPositions(b) : it.index <= p
          /\ ~end.it.ub
          /\ Len(end.res) = n
          /\ ~IteratorValid(end.it)
          /\ ~end.it.dcheck

\* C25: IntersectRange drives its Builder in three phases: after the head
\* bits the range is finished or the cursor is on a word boundary, every
\* AppendWord finds the cursor word-aligned and room for a word, and the
\* bits of the three phases add up to what the Builder needed: Build() is
\* called on a full Builder.
C25_ThreePhases ==
  (Returned("IntersectRange")
     /\ last.n < Min(last.m, prev[last.o].size))
    => LET src == prev[last.o]
           end_idx == Min(last.m, src.size)
           head == IntersectRangeHead(src, last.n, last.m)
           body == IntersectRangeBody(src, last.n, last.m)
           full == IntersectRangeBuilder(src, last.n, last.m)
       IN /\ \/ head.global_bit_offset = end_idx
             \/ head.global_bit_offset % kBitsInWord = 0
          /\ ~head.dcheck /\ ~head.ub
          /\ (body.global_bit_offset - head.global_bit_offset)
               % kBitsInWord = 0
          /\ ~body.dcheck /\ ~body.ub
          /\ ~full.dcheck /\ ~full.ub
          /\ (head.global_bit_offset - last.n)
               + (body.global_bit_offset - head.global_bit_offset)
               + (full.global_bit_offset - body.global_bit_offset)
               = end_idx - last.n
          /\ BitsUntilFull(full) = 0
          /\ bv[last.t] = Build(full)

\* C25's case: an IntersectRange in which each of the three phases appends
\* bits.
C25_Witness ==
  /\ Returned("IntersectRange")
  /\ last.n < Min(last.m, prev[last.o].size)
  /\ IntersectRangeHead(prev[last.o], last.n, last.m).global_bit_offset
       > last.n
  /\ IntersectRangeBody(prev[last.o], last.n, last.m).global_bit_offset
       > IntersectRangeHead(prev[last.o], last.n, last.m).global_bit_offset
  /\ IntersectRangeBuilder(prev[last.o], last.n, last.m).global_bit_offset
       > IntersectRangeBody(prev[last.o], last.n, last.m).global_bit_offset
  /\ SetPositions(bv[last.t]) # {}

\* C26: in the word loop of UpdateSetBits, when update.size <=
\* CountSetBits(this), unused_bits_count is at most 64 and update_unused_bits
\* holds no bit at or above position unused_bits_count after every
\* iteration; when the loop ends every word of update has been read and
\* update_unused_bits is 0.
C26_UpdateLoop ==
  LET old == prev[last.t]
      update == prev[last.o]
  IN (/\ last.op = "UpdateSetBits"
      /\ CountSetBits(update) # 0
      /\ CountSetBits(old) # 0
      /\ update.size <= CountSetBits(old))
       => /\ \A k \in 0 .. WordCount(old.size) :
               LET st == UpdateSetBitsAfter(old, update, k)
               IN /\ st.unused_bits_count <= kBitsInWord
                  /\ \A x \in st.update_unused_bits : x < st.unused_bits_count
          /\ UpdateSetBitsEnd(old, update).update_ptr = WordCount(update.size)
          /\ UpdateSetBitsEnd(old, update).update_unused_bits = {}

\* C27: after an UpdateSetBits(update) that is not degenerate and meets
\* update.size <= CountSetBits(this), CountSetBits() of this is
\* update.CountSetBits() and counts is the prefix sum of the popcounts of the
\* blocks of the updated words.
C27_UpdateCounts ==
  LET old == prev[last.t]
      update == prev[last.o]
  IN (/\ Returned("UpdateSetBits")
      /\ CountSetBits(update) # 0
      /\ CountSetBits(old) # 0
      /\ update.size <= CountSetBits(old))
       => /\ CountSetBits(bv[last.t]) = CountSetBits(update)
          /\ RankInvariant(bv[last.t])

\* C28: after any sequence of public mutations the blocks allocated are the
\* blocks size needs: counts.length == ceil(size / BLOCK_BITS), which is 0
\* when size is 0 and then only; no block is left after the one that holds
\* bit size - 1.
C28_BlocksNeeded ==
  \A t \in Vecs :
    /\ Len(bv[t].counts) = (bv[t].size + kBitsInBlock - 1) \div kBitsInBlock
    /\ (Len(bv[t].counts) = 0) = (bv[t].size = 0)

\* C28's case: a mutation that cut a BitVector of several blocks to one
\* block, full to its last bit.
C28_Witness ==
  /\ last.op \in Mutations
  /\ status = "ok"
  /\ Len(prev[last.t].counts) > 1
  /\ bv[last.t].size = kBitsInBlock
  /\ Len(bv[last.t].counts) = 1

\* A batch with isLastBatch = true has been appended to the query result.
LastBatchAppended ==
  \E k \in 1 .. Len(resultObj.batches) : resultObj.batches[k].isLastBatch

\* waitAllRows() has returned its promise, and the promise is settled.
Waited == resultObj.allRowsPromise # undefined

Settled == Waited /\ resultObj.allRowsPromise[1].state # "pending"

\* The non-empty errors received so far.
NonEmptyErrors == SelectSeq(received, LAMBDA e : e # "")

\* C29, first part: the promise of waitAllRows() is never settled before a
\* batch with isLastBatch = true has been appended.
C29_NotSettledBefore == Settled => LastBatchAppended

\* C29, second part: once a batch with isLastBatch = true is appended, or if
\* it already was when waitAllRows() is called, the promise is settled.
C29_SettledOnce == (Waited /\ LastBatchAppended) => Settled

\* C29, third part: the promise settles as resolved with the result object
\* when no non-empty error was received, and as rejected with that error
\* otherwise.
C29_SettledAs ==
  [][(~Settled /\ Settled') =>
       IF NonEmptyErrors' = <<>>
       THEN resultObj'.allRowsPromise[1] =
              [state |-> "resolved", value |-> "this"]
       ELSE /\ resultObj'.allRowsPromise[1].state = "rejected"
            /\ \E k \in 1 .. Len(NonEmptyErrors') :
                 resultObj'.allRowsPromise[1].value = NonEmptyErrors'[k]]_vars

\* C29, fourth part: a second call of waitAllRows() fails its assertion and
\* leaves the query result as it was.
C29_SecondCallFails ==
  [][(Waited /\ last'.op = "waitAllRows") =>
       (last'.flag /\ resultObj' = resultObj)]_vars

\* C29: for a query result fed by any sequence of appendResultBatch calls,
\* the promise returned by waitAllRows() is never settled before a batch with
\* isLastBatch = true has been appended; once such a batch is appended (or if
\* it already was when waitAllRows() is called) the promise is resolved with
\* the result object when no non-empty error was received and rejected with
\* that error otherwise; a second call of waitAllRows() fails its assertion.
C29_WaitAllRows ==
  /\ []C29_NotSettledBefore
  /\ []C29_SettledOnce
  /\ C29_SettledAs
  /\ C29_SecondCallFails

\* The rows of appended batch k (counted from 1), each one named by the index
\* of its batch (counted from 0) and the offset of its first cell.
RowsOfBatch(k) ==
  LET batch == resultObj.batches[k]
      n == Len(resultObj.columnNames)
  IN  IF n = 0 THEN <<>>
      ELSE [r \in 1 .. (numCells(batch) \div n) |->
              <<k - 1, batch.cellTypesOff + (r - 1) * n>>]

RECURSIVE RowsUpTo(_)
RowsUpTo(k) == IF k = 0 THEN <<>> ELSE RowsUpTo(k - 1) \o RowsOfBatch(k)

\* Every row of every appended batch, in batch order and in row order.
AllRows == RowsUpTo(Len(resultObj.batches))

\* The iterator was made, and the last call was an iter() or a next() that
\* returned.
Moved == iter # undefined /\ last.op \in {"iter", "next"} /\ ~last.flag

\* C30: a row iterator over a query result visits every row of every
\* appended batch exactly once, in batch order and in row order within a
\* batch (the rows visited are always the first rows of all the rows
\* appended); when next() returns with the iterator invalid it has run out of
\* appended batches (every appended row was visited), and a next() after
\* another batch was appended goes on with the first row of that batch; after
\* the last batch the rows visited number exactly numRows().
C30_RowIterator ==
  /\ Len(visited) <= Len(AllRows)
  /\ \A k \in 1 .. Min(Len(visited), Len(AllRows)) : visited[k] = AllRows[k]
  /\ (Moved /\ ~iter[1].isValid) => visited = AllRows
  /\ (Moved /\ ~iter[1].isValid /\ resultObj.isComplete) =>
       Len(visited) = resultObj.numRows

\* The cells of the first k appended batches.
RECURSIVE CellsUpTo(_)
CellsUpTo(k) ==
  IF k = 0 THEN 0 ELSE CellsUpTo(k - 1) + numCells(resultObj.batches[k])

\* C31, first part: numRows() equals the sum over all appended batches of
\* numCells / number of column names: numRows() times the number of column
\* names is the number of cells appended, and without a column name no cell
\* was appended and numRows() is 0.
C31_NumRowsIsSum ==
  LET n == Len(resultObj.columnNames)
      cells == CellsUpTo(Len(resultObj.batches))
  IN  IF n = 0 THEN cells = 0 /\ resultObj.numRows = 0
      ELSE resultObj.numRows * n = cells

\* C31, second part: once isComplete() has returned true, isComplete() and
\* numRows() keep their values under every later appendResultBatch call.
C31_Stable ==
  [][(resultObj.isComplete /\ last'.op = "appendResultBatch") =>
       (resultObj'.isComplete /\ resultObj'.numRows = resultObj.numRows)]_vars

\* C31: for any sequence of appendResultBatch calls, numRows() equals the sum
\* over all appended batches of numCells / number of column names, and once
\* isComplete() has returned true both isComplete() and numRows() keep their
\* values under every later appendResultBatch call.
C31_NumRows ==
  /\ []C31_NumRowsIsSum
  /\ C31_Stable

\* The reference parallel bit deposit: a bit of mask is set in the result
\* when the bit of word that has its rank among the set bits of mask is set.
PdepReference(word, mask) ==
  {b \in mask : Cardinality({c \in mask : c < b}) \in word}

\* C32: PdepSlow(word, mask) equals the reference parallel bit deposit for
\* every word and mask: bit k of word is placed at the position of the k-th
\* lowest set bit of mask and every other result bit is 0, the shortcut cases
\* word == 0 and mask == all ones included.
C32_PdepSlow ==
  deposit.called =>
    deposit.result = PdepReference(deposit.word, deposit.mask)

\* PdepSlow returned from its loop with some bits of word deposited away from
\* their positions, one bit of word left out by a zero in word and one by the
\* end of mask.
C32_Witness ==
  /\ deposit.called
  /\ deposit.word # {} /\ deposit.mask # AllOnes
  /\ deposit.result # {} /\ deposit.result # deposit.word
  /\ deposit.result # deposit.mask
  /\ \E k \in deposit.word : k >= Cardinality(deposit.mask)
====
